---- MODULE Spec2Model ----
(***************************************************************************)
(* State-machine model of tcp_server_setcom.py: the command execution core *)
(* (run_setcom, the preemption barrier, _ramp_runner, _start_proc_and_wait *)
(* and kill_active_proc) under an interleaving of Python threads.  Every    *)
(* action is one step between two accesses to shared state; time.sleep and *)
(* timeouts carry no timing assumption.                                     *)
(***************************************************************************)
EXTENDS Integers, Sequences, FiniteSets, TLC

(* ------------------------------------------------------------------ *)
(* Bounds of the model                                                 *)
(* ------------------------------------------------------------------ *)
\* number of threads that call run_setcom (TCP connections, HTTP, flusher)
NumSubmitters == 2
\* total number of run_setcom calls in one behaviour
MaxSubmits == 2

(* ------------------------------------------------------------------ *)
(* Program constants                                                   *)
(* ------------------------------------------------------------------ *)
\* wait_total / interval of the barrier: 1.0 s in 0.05 s slices
WaitSlices == 20
\* RAMP_STEP_DELAY_FLOOR, in milliseconds
RAMP_STEP_DELAY_FLOOR == 80
\* slice of the cancellable sleep, min(0.1, ...), in milliseconds
SleepSliceMs == 100
\* return codes of run_setcom and _start_proc_and_wait
RcBadShape == 252
RcBadPrefix == 253
RcBadValue == 254
RcToolMissing == 252
RcTimeout == 253
RcSpawnFailed == 254
\* Popen.returncode of a child ended by proc.terminate() (POSIX: -SIGTERM)
RcTerminated == -15

(* ------------------------------------------------------------------ *)
(* Tokens: a token is a sequence of characters, a command a sequence   *)
(* of tokens (text.split()).                                           *)
(* ------------------------------------------------------------------ *)
Digits == {"0", "1", "2", "3", "4", "5", "6", "7", "8", "9"}

DigitVal(ch) ==
    CASE ch = "0" -> 0 [] ch = "1" -> 1 [] ch = "2" -> 2 [] ch = "3" -> 3
      [] ch = "4" -> 4 [] ch = "5" -> 5 [] ch = "6" -> 6 [] ch = "7" -> 7
      [] ch = "8" -> 8 [] ch = "9" -> 9 [] OTHER -> 0

\* str.lower() on the characters the commands use
LowerChar(ch) ==
    CASE ch = "C" -> "c" [] ch = "O" -> "o" [] ch = "M" -> "m"
      [] ch = "X" -> "x" [] OTHER -> ch

Lower(tok) == [i \in DOMAIN tok |-> LowerChar(tok[i])]

\* the part of a numeric literal after its optional sign
Unsigned(tok) ==
    IF Len(tok) > 0 /\ tok[1] \in {"+", "-"} THEN Tail(tok) ELSE tok

\* int(s) succeeds: optional sign, then digits, single underscores allowed
\* between digits
IsInt(tok) ==
    LET u == Unsigned(tok) IN
      /\ Len(u) > 0
      /\ \A i \in DOMAIN u : u[i] \in Digits \cup {"_"}
      /\ u[1] \in Digits
      /\ u[Len(u)] \in Digits
      /\ \A i \in 1..(Len(u) - 1) : ~(u[i] = "_" /\ u[i + 1] = "_")

RECURSIVE DigitsVal(_, _)
DigitsVal(u, acc) ==
    IF u = <<>> THEN acc
    ELSE IF Head(u) = "_" THEN DigitsVal(Tail(u), acc)
    ELSE DigitsVal(Tail(u), 10 * acc + DigitVal(Head(u)))

\* int(s) for a token on which int() succeeds
IntVal(tok) ==
    LET m == DigitsVal(Unsigned(tok), 0) IN
      IF Len(tok) > 0 /\ tok[1] = "-" THEN 0 - m ELSE m

\* run_setcom, lines 541-545: only 3 or 4 tokens
ShapeOk(toks) == Len(toks) \in {3, 4}

\* run_setcom, lines 547-551: tokens[0].lower() == "com3" and tokens[1] == "1"
PrefixOk(toks) ==
    /\ Lower(toks[1]) = <<"c", "o", "m", "3">>
    /\ toks[2] = <<"1">>

\* a stricter conversion that also refuses a negative duration
ValuesOkNonNegative(toks) ==
    IF Len(toks) = 3 THEN IsInt(toks[3])
    ELSE IsInt(toks[3]) /\ IsInt(toks[4]) /\ IntVal(toks[4]) >= 0

\* a conversion that forgets the duration of a ramp
ValuesOkVoltageOnly(toks) == IsInt(toks[3])

\* run_setcom, lines 582-587 and 597-603: the int() conversions
ValuesOk(toks) ==
    IF Len(toks) = 3 THEN IsInt(toks[3])
    ELSE IsInt(toks[3]) /\ IsInt(toks[4])

(* ------------------------------------------------------------------ *)
(* Ramp planning                                                       *)
(* ------------------------------------------------------------------ *)
Abs(x) == IF x < 0 THEN 0 - x ELSE x
Max(a, b) == IF a >= b THEN a ELSE b
Min(a, b) == IF a <= b THEN a ELSE b

\* Python 3 round() of the quotient n / d, d > 0: ties go to the even integer
RoundHalfEven(n, d) ==
    LET q == n \div d
        r == n % d
    IN  IF 2 * r < d THEN q
        ELSE IF 2 * r > d THEN q + 1
        ELSE IF q % 2 = 0 THEN q ELSE q + 1

\* "collapse consecutive duplicates" loops of _ease_sample_sequence
RECURSIVE Collapse(_)
Collapse(s) ==
    IF Len(s) <= 1 THEN s
    ELSE IF s[1] = s[2] THEN Collapse(Tail(s))
    ELSE <<s[1]>> \o Collapse(Tail(s))

\* "ensure start and end are present"
ForceEnds(s, start_v, end_v) ==
    LET a == IF s[1] # start_v THEN <<start_v>> \o s ELSE s
    IN  IF a[Len(a)] # end_v THEN Append(a, end_v) ELSE a

\* the integers from start_v to end_v, one per unit of voltage
UnitSteps(start_v, end_v) ==
    [i \in 1..(Abs(end_v - start_v) + 1) |->
       IF end_v >= start_v THEN start_v + (i - 1) ELSE start_v - (i - 1)]

\* a planner that cuts the sequence after max_samples samples instead of
\* resampling it
EaseSampleTruncated(start_v, end_v, max_samples) ==
    LET seq == UnitSteps(start_v, end_v)
    IN  IF max_samples >= 2 /\ Len(seq) > max_samples
        THEN SubSeq(seq, 1, max_samples)
        ELSE seq

\* a planner that samples away from end_v and then appends end_v
EaseSampleWrongSign(start_v, end_v, max_samples) ==
    IF end_v = start_v THEN <<end_v>>
    ELSE ForceEnds(UnitSteps(start_v, start_v - (end_v - start_v)), start_v, end_v)

\* a planner that never downsamples
EaseSampleAll(start_v, end_v, max_samples) == UnitSteps(start_v, end_v)

\* _ease_sample_sequence with smoothing = RAMP_SMOOTHING = "linear"
EaseSampleSequence(start_v, end_v, max_samples) ==
    LET total_steps == Abs(end_v - start_v) IN
    IF total_steps = 0 THEN <<end_v>>
    ELSE
      LET samples == [i \in 1..(total_steps + 1) |->
                        RoundHalfEven(start_v * total_steps
                                        + (end_v - start_v) * (i - 1),
                                      total_steps)]
          seq == ForceEnds(Collapse(samples), start_v, end_v)
      IN  IF max_samples >= 2 /\ Len(seq) > max_samples
          THEN LET N == max_samples
                   out == [j \in 1..N |->
                             seq[RoundHalfEven((j - 1) * (Len(seq) - 1), N - 1) + 1]]
               IN  ForceEnds(Collapse(out), start_v, end_v)
          ELSE seq

\* desired_duration_s, in milliseconds: max(0.0, duration_ms / 1000.0)
DesiredMs(duration_ms) == Max(0, duration_ms)

\* max_intervals rounded up instead of down
MaxIntervalsCeil(duration_ms) ==
    Max(1, (DesiredMs(duration_ms) + RAMP_STEP_DELAY_FLOOR - 1)
             \div RAMP_STEP_DELAY_FLOOR)

\* max_intervals = max(1, floor(desired_duration_s / RAMP_STEP_DELAY_FLOOR))
MaxIntervals(duration_ms) ==
    Max(1, DesiredMs(duration_ms) \div RAMP_STEP_DELAY_FLOOR)

\* a plan without the floor on the interval (lines 464-467 left out)
PlanNoFloor(start_v, end_v, duration_ms) ==
    LET seq == EaseSampleSequence(start_v, end_v, MaxIntervals(duration_ms) + 1)
        desired == DesiredMs(duration_ms)
    IN  [seq |-> seq,
         num |-> desired,
         den |-> Max(1, Len(seq) - 1)]

\* the plan of _ramp_runner, lines 452-468: the sequence and the per-step
\* interval, kept as the exact fraction num / den milliseconds
Plan(start_v, end_v, duration_ms) ==
    LET seq == EaseSampleSequence(start_v, end_v, MaxIntervals(duration_ms) + 1)
        intervals == Max(1, Len(seq) - 1)
        desired == DesiredMs(duration_ms)
        floored == desired > 0 /\ desired < RAMP_STEP_DELAY_FLOOR * intervals
    IN  [seq |-> seq,
         num |-> IF desired > 0
                 THEN (IF floored THEN RAMP_STEP_DELAY_FLOOR ELSE desired)
                 ELSE 0,
         den |-> IF floored THEN 1 ELSE intervals]

\* number of iterations of the sleep loop "while slept < interval_s"
SleepSlices(num, den) == (num + den * SleepSliceMs - 1) \div (den * SleepSliceMs)

(* ------------------------------------------------------------------ *)
(* Inputs: the command lines the frontends and the flusher submit      *)
(* ------------------------------------------------------------------ *)
tCom3 == <<"c", "o", "m", "3">>
tCOM3 == <<"C", "O", "M", "3">>
tCom4 == <<"c", "o", "m", "4">>
tOne == <<"1">>
tTwo == <<"2">>
tThree == <<"3">>
tBad == <<"x">>

\* "com3 1 3": instant
cInstant == <<tCom3, tOne, tThree>>
\* "COM3 1 2 100": ramp to 2 in 100 ms
cRamp == <<tCOM3, tOne, tTwo, <<"1", "0", "0">>>>
\* "com3 1 1 -5": ramp with a negative duration
cRampNeg == <<tCom3, tOne, tOne, <<"-", "5">>>>
\* "com3 1": too few tokens
cShort == <<tCom3, tOne>>
\* "com4 1 x 200 1": too many tokens, wrong prefix, unparsable voltage
cLong == <<tCom4, tOne, tBad, <<"2", "0", "0">>, tOne>>
\* "com4 1 x": wrong prefix and unparsable voltage
cPrefix == <<tCom4, tOne, tBad>>
\* "com3 2 3": wrong address
cAddr == <<tCom3, tTwo, tThree>>
\* "com3 1 x": unparsable voltage
cVolt == <<tCom3, tOne, tBad>>
\* "com3 1 2 x": unparsable duration
cDur == <<tCom3, tOne, tTwo, tBad>>

ValidCommands == {cInstant, cRamp, cRampNeg}
InvalidCommands == {cShort, cLong, cPrefix, cAddr, cVolt, cDur}
Commands == ValidCommands \cup InvalidCommands

\* exit codes of the device tool and the voltages it may echo ("volt: 7")
ToolRcs == {0, 1}
Echoes == {<<>>, <<7>>}

(* ------------------------------------------------------------------ *)
(* State                                                               *)
(* ------------------------------------------------------------------ *)
Submitters == 1..NumSubmitters
\* every run_setcom call can create one ramp thread
Runners == (NumSubmitters + 1)..(NumSubmitters + MaxSubmits)
\* the ramp thread of the first ramp command
FirstRunner == NumSubmitters + 1
\* the main thread: it accepts connections and runs the signal handler
Main == NumSubmitters + MaxSubmits + 1
Threads == Submitters \cup Runners \cup {Main}
\* Popen objects that can be referenced at once: one per thread
ProcIds == 1..(NumSubmitters + MaxSubmits)

VARIABLES
    last_known_voltage,  \* <<>> (None) or <<v>>
    active_proc,         \* 0 (None) or the published child
    ramp_thread,         \* 0 (None) or a ramp thread
    ramp_cancel_event,   \* threading.Event: set or not
    ramp_lock,           \* threading.Lock: held or not
    procs,               \* the Popen objects some thread still references
    pc,                  \* where each thread is
    call,                \* each thread's frame of kill_active_proc / _start_proc_and_wait
    sub,                 \* each submitter's frame of run_setcom
    run,                 \* each ramp thread's arguments and locals
    log,                 \* history: the run_setcom calls in call order, and which returned
    requested,           \* history: voltages asked for by instants and ramp plans
    confirmed            \* history: voltages the tool exited 0 on, or echoed

\* The persisted queue and the frontends that call run_setcom.
VARIABLES
    db,                  \* OutboundDB: the rows of table queue and its AUTOINCREMENT counter
    http,                \* each ControlHandler.do_POST thread
    flusher,             \* the flush_persisted_queue_loop thread
    conn,                \* one handle_client thread and its connection
    disp,                \* what the frontends' run_setcom calls left behind (see RunSetcom)
    trail                \* history: POSTs so far, enqueue order, rows whose submit returned 0

front == <<db, http, flusher, conn, disp, trail>>

core == <<last_known_voltage, active_proc, ramp_thread, ramp_cancel_event,
          ramp_lock, procs, pc, call, sub, run, log, requested, confirmed>>

vars == <<last_known_voltage, active_proc, ramp_thread, ramp_cancel_event,
          ramp_lock, procs, pc, call, sub, run, log, requested, confirmed, front>>

hist == <<log, requested, confirmed>>

FreeProc == [st |-> "free", rc |-> 0, echo |-> <<>>, arg |-> 0]
CallInit == [kret |-> "", iret |-> "", arg |-> 0, proc |-> 0, rc |-> 0, kproc |-> 0]
SubInit == [tokens |-> <<>>, seqno |-> 0, waited |-> 0, newr |-> 0, msg |-> "",
            raised |-> FALSE, entered |-> FALSE, found |-> 0, signalled |-> FALSE,
            wrote |-> FALSE, clean |-> TRUE]
RunInit == [args |-> [start_v |-> 0, end_v |-> 0, duration_ms |-> 0, offset_ms |-> 0],
            by |-> 0, start_v |-> 0, seq |-> <<>>, num |-> 0, den |-> 1,
            idx |-> 0, slept |-> 0, phase |-> "",
            issued |-> <<>>, since |-> 0, hit |-> FALSE,
            shut |-> FALSE, after |-> 0]

\* ---- initial state of the queue and the frontends ----

NumHttp == 2
HttpIds == 1..NumHttp

\* table queue (lines 164-169) starting with the given command texts, all
\* unsent, ids 1..n; seq is sqlite's AUTOINCREMENT counter
MkQueue(texts) ==
    [rows |-> [i \in 1..Len(texts) |-> [id |-> i, cmd |-> texts[i], sent |-> FALSE]],
     seq |-> Len(texts)]

HttpInit == [pc |-> "idle", cmd |-> <<>>, row_id |-> 0, tokens |-> <<>>, rc |-> 0,
             raised |-> FALSE, marked |-> FALSE, status |-> 0]
FlusherInit == [pc |-> "sleep", rows |-> <<>>, i |-> 0, tokens |-> <<>>, done |-> <<>>]
ConnInit == [pc |-> "closed", wire |-> <<>>, got |-> <<>>, buf |-> <<>>, line |-> <<>>,
             tokens |-> <<>>, lines |-> <<>>, out |-> <<>>]
DispInit == [alive |-> FALSE, ramps |-> 0]
TrailInit == [posts |-> 0, enq |-> <<>>, ok |-> {}]

\* the queue file holds the given texts, a client is about to send the bytes w
FrontInit(texts, w) ==
    /\ db = MkQueue(texts)
    /\ http = [h \in HttpIds |-> HttpInit]
    /\ flusher = FlusherInit
    /\ conn = [ConnInit EXCEPT !.wire = w, !.pc = IF w = <<>> THEN "closed" ELSE "recv"]
    /\ disp = DispInit
    /\ trail = TrailInit

CoreInit ==
    /\ last_known_voltage = <<>>
    /\ active_proc = 0
    /\ ramp_thread = 0
    /\ ramp_cancel_event = FALSE
    /\ ramp_lock = FALSE
    /\ procs = [c \in ProcIds |-> FreeProc]
    /\ pc = [t \in Threads |-> IF t \in Submitters THEN "idle"
                                ELSE IF t = Main THEN "serving" ELSE "unborn"]
    /\ call = [t \in Threads |-> CallInit]
    /\ sub = [t \in Submitters |-> SubInit]
    /\ run = [r \in Runners |-> RunInit]
    /\ log = <<>>
    /\ requested = {}
    /\ confirmed = {}

Init == CoreInit /\ FrontInit(<<>>, <<>>)

\* threading.Thread.is_alive(): started and not yet finished
IsAlive(r) == r # 0 /\ pc[r] \notin {"unborn", "created", "dead"}

\* the run_setcom call a thread works for
By(t) == IF t \in Submitters THEN sub[t].seqno
         ELSE IF t \in Runners THEN run[t].by ELSE 0

\* History kept with each ramp thread: issued, the voltages of the
\* _start_proc_and_wait calls it has made; since, how many of them it made
\* while ramp_cancel_event has been set without interruption; hit, whether
\* ramp_cancel_event was ever set while the thread was alive; shut, whether
\* shutdown set the event while the thread was alive; after, how many
\* _start_proc_and_wait calls the thread has made since then.
Issue(t) ==
    IF t \in Runners
    THEN [run EXCEPT ![t].issued = Append(@, call[t].arg),
                     ![t].since = IF ramp_cancel_event THEN @ + 1 ELSE @,
                     ![t].after = IF run[t].shut THEN @ + 1 ELSE @]
    ELSE run
\* ramp_cancel_event.set()
Signalled ==
    [r \in Runners |-> IF IsAlive(r) THEN [run[r] EXCEPT !.hit = TRUE] ELSE run[r]]
\* ramp_cancel_event.set() by shutdown
ShutSignalled ==
    [r \in Runners |->
       IF IsAlive(r) THEN [run[r] EXCEPT !.hit = TRUE, !.shut = TRUE] ELSE run[r]]
\* ramp_cancel_event.clear()
Cleared == [r \in Runners |-> [run[r] EXCEPT !.since = 0]]

\* a Popen object nothing refers to any more is dropped
Collect(p, ap, cl) ==
    [c \in DOMAIN p |->
       IF /\ p[c].st \in {"exited", "killed"}
          /\ c # ap
          /\ \A t \in Threads : cl[t].proc # c /\ cl[t].kproc # c
       THEN FreeProc ELSE p[c]]

(* ------------------------------------------------------------------ *)
(* kill_active_proc, lines 237-268                                     *)
(* ------------------------------------------------------------------ *)
\* with active_proc_lock: proc = active_proc; if not proc: return False
KillRead(t) ==
    /\ pc[t] = "kill_read"
    /\ IF active_proc = 0
       THEN /\ call' = [call EXCEPT ![t].kret = ""]
            /\ pc' = [pc EXCEPT ![t] = call[t].kret]
       ELSE /\ call' = [call EXCEPT ![t].kproc = active_proc]
            /\ pc' = [pc EXCEPT ![t] = "kill_term"]
    /\ UNCHANGED <<last_known_voltage, active_proc, ramp_thread, ramp_cancel_event,
                   ramp_lock, procs, sub, run, hist>>
    /\ UNCHANGED front

\* proc.terminate(); proc.wait(timeout): the child is dead afterwards
KillTerminate(t) ==
    /\ pc[t] = "kill_term"
    /\ procs' = IF procs[call[t].kproc].st = "running"
                THEN [procs EXCEPT ![call[t].kproc].st = "killed",
                                   ![call[t].kproc].rc = RcTerminated]
                ELSE procs
    /\ pc' = [pc EXCEPT ![t] = "kill_clear"]
    /\ UNCHANGED <<last_known_voltage, active_proc, ramp_thread, ramp_cancel_event,
                   ramp_lock, call, sub, run, hist>>
    /\ UNCHANGED front

\* finally: _clear_active_proc(); return True
KillClear(t) ==
    /\ pc[t] = "kill_clear"
    /\ active_proc' = 0
    /\ call' = [call EXCEPT ![t].kproc = 0, ![t].kret = ""]
    /\ procs' = Collect(procs, active_proc', call')
    /\ pc' = [pc EXCEPT ![t] = call[t].kret]
    /\ UNCHANGED <<last_known_voltage, ramp_thread, ramp_cancel_event,
                   ramp_lock, sub, run, hist>>
    /\ UNCHANGED front

(* ------------------------------------------------------------------ *)
(* _start_proc_and_wait, lines 271-341                                 *)
(* ------------------------------------------------------------------ *)
\* lines 281-284: RESOLVED_EXEC is unset or the file is gone: return 252
InvokeToolMissing(t) ==
    /\ pc[t] = "inv_begin"
    /\ call' = [call EXCEPT ![t].rc = RcToolMissing, ![t].iret = "", ![t].arg = 0]
    /\ run' = Issue(t)
    /\ pc' = [pc EXCEPT ![t] = call[t].iret]
    /\ UNCHANGED <<last_known_voltage, active_proc, ramp_thread, ramp_cancel_event,
                   ramp_lock, procs, sub, hist>>
    /\ UNCHANGED front

\* lines 289-297: last_known_voltage is pre-updated from the voltage token
InvokeBegin(t) ==
    /\ pc[t] = "inv_begin"
    /\ last_known_voltage' = <<call[t].arg>>
    /\ sub' = IF t \in Submitters THEN [sub EXCEPT ![t].wrote = TRUE] ELSE sub
    /\ run' = Issue(t)
    /\ pc' = [pc EXCEPT ![t] = "inv_popen"]
    /\ UNCHANGED <<active_proc, ramp_thread, ramp_cancel_event, ramp_lock,
                   procs, call, hist>>
    /\ UNCHANGED front

\* lines 307-309: subprocess.Popen raises: return 254
InvokeSpawnFail(t) ==
    /\ pc[t] = "inv_popen"
    /\ call' = [call EXCEPT ![t].rc = RcSpawnFailed, ![t].iret = "", ![t].arg = 0]
    /\ pc' = [pc EXCEPT ![t] = call[t].iret]
    /\ UNCHANGED <<last_known_voltage, active_proc, ramp_thread, ramp_cancel_event,
                   ramp_lock, procs, sub, run, hist>>
    /\ UNCHANGED front

\* lines 299-306: subprocess.Popen starts the child
InvokePopen(t) ==
    /\ pc[t] = "inv_popen"
    /\ \E c \in ProcIds :
         /\ procs[c].st = "free"
         /\ \A d \in ProcIds : d < c => procs[d].st # "free"
         /\ procs' = [procs EXCEPT ![c] = [st |-> "running", rc |-> 0,
                                           echo |-> <<>>, arg |-> call[t].arg]]
         /\ call' = [call EXCEPT ![t].proc = c]
    /\ pc' = [pc EXCEPT ![t] = "inv_publish"]
    /\ UNCHANGED <<last_known_voltage, active_proc, ramp_thread, ramp_cancel_event,
                   ramp_lock, sub, run, hist>>
    /\ UNCHANGED front

\* line 311: _set_active_proc(proc)
InvokePublish(t) ==
    /\ pc[t] = "inv_publish"
    /\ active_proc' = call[t].proc
    /\ pc' = [pc EXCEPT ![t] = "inv_wait"]
    /\ UNCHANGED <<last_known_voltage, ramp_thread, ramp_cancel_event,
                   ramp_lock, procs, call, sub, run, hist>>
    /\ UNCHANGED front

\* lines 314-328: communicate() returns; a voltage echoed by the tool is
\* written to last_known_voltage
InvokeWait(t) ==
    /\ pc[t] = "inv_wait"
    /\ procs[call[t].proc].st # "running"
    /\ call' = [call EXCEPT ![t].rc = procs[call[t].proc].rc]
    /\ IF procs[call[t].proc].echo # <<>>
       THEN /\ last_known_voltage' = procs[call[t].proc].echo
            /\ sub' = IF t \in Submitters THEN [sub EXCEPT ![t].clean = FALSE] ELSE sub
       ELSE UNCHANGED <<last_known_voltage, sub>>
    /\ pc' = [pc EXCEPT ![t] = "inv_clear"]
    /\ UNCHANGED <<active_proc, ramp_thread, ramp_cancel_event, ramp_lock,
                   procs, run, hist>>
    /\ UNCHANGED front

\* a timeout that reports 253 and leaves the child running
InvokeTimeoutNoKill(t) ==
    /\ pc[t] = "inv_wait"
    /\ procs[call[t].proc].st = "running"
    /\ call' = [call EXCEPT ![t].rc = RcTimeout]
    /\ pc' = [pc EXCEPT ![t] = "inv_clear"]
    /\ UNCHANGED <<last_known_voltage, active_proc, ramp_thread, ramp_cancel_event,
                   ramp_lock, procs, sub, run, hist>>
    /\ UNCHANGED front

\* lines 329-339: TimeoutExpired: proc.kill(), drain, return 253
InvokeTimeout(t) ==
    /\ pc[t] = "inv_wait"
    /\ procs[call[t].proc].st = "running"
    /\ procs' = [procs EXCEPT ![call[t].proc].st = "killed",
                              ![call[t].proc].rc = RcTerminated]
    /\ call' = [call EXCEPT ![t].rc = RcTimeout]
    /\ pc' = [pc EXCEPT ![t] = "inv_clear"]
    /\ UNCHANGED <<last_known_voltage, active_proc, ramp_thread, ramp_cancel_event,
                   ramp_lock, sub, run, hist>>
    /\ UNCHANGED front

\* lines 340-341: finally: _clear_active_proc()
InvokeClear(t) ==
    /\ pc[t] = "inv_clear"
    /\ active_proc' = 0
    /\ call' = [call EXCEPT ![t].proc = 0, ![t].iret = "", ![t].arg = 0]
    /\ procs' = Collect(procs, active_proc', call')
    /\ pc' = [pc EXCEPT ![t] = call[t].iret]
    /\ UNCHANGED <<last_known_voltage, ramp_thread, ramp_cancel_event,
                   ramp_lock, sub, run, hist>>
    /\ UNCHANGED front

\* the device tool ends by itself with exit code rc and output that holds
\* the voltage e (<<>>: no "volt" line)
ChildExit(c, rc, e) ==
    /\ procs[c].st = "running"
    /\ procs' = [procs EXCEPT ![c].st = "exited", ![c].rc = rc, ![c].echo = e]
    /\ confirmed' = confirmed
                      \cup (IF rc = 0 THEN {procs[c].arg} ELSE {})
                      \cup (IF e # <<>> THEN {e[1]} ELSE {})
    /\ UNCHANGED <<last_known_voltage, active_proc, ramp_thread, ramp_cancel_event,
                   ramp_lock, pc, call, sub, run, log, requested>>
    /\ UNCHANGED front

(* ------------------------------------------------------------------ *)
(* run_setcom, lines 525-617                                           *)
(* ------------------------------------------------------------------ *)
\* the three checks made at once, before the barrier
EarlyRcAllChecks(toks) ==
    IF ~ShapeOk(toks) THEN RcBadShape
    ELSE IF ~PrefixOk(toks) THEN RcBadPrefix
    ELSE IF ~ValuesOk(toks) THEN RcBadValue
    ELSE 0

\* the prefix check made before the token count
EarlyRcPrefixFirst(toks) ==
    IF ~PrefixOk(toks) THEN RcBadPrefix
    ELSE IF ~ShapeOk(toks) THEN RcBadShape
    ELSE 0

\* checks whose code depends on whether a ramp thread is registered
EarlyRcByState(toks) ==
    IF ~ShapeOk(toks) THEN (IF ramp_thread # 0 THEN RcBadPrefix ELSE RcBadShape)
    ELSE IF ~PrefixOk(toks) THEN RcBadPrefix
    ELSE 0

\* lines 541-551: the checks made before the barrier; 0 when both pass
EarlyRc(toks) ==
    IF ~ShapeOk(toks) THEN RcBadShape
    ELSE IF ~PrefixOk(toks) THEN RcBadPrefix
    ELSE 0

\* what a command line is: an instant, a ramp, or a line run_setcom rejects
Kind(toks) ==
    IF EarlyRc(toks) # 0 \/ ~ValuesOk(toks) THEN "rejected"
    ELSE IF Len(toks) = 3 THEN "instant" ELSE "ramp"

\* a frontend or the flusher calls run_setcom(tokens); lines 538-551
Submit(t, toks) ==
    /\ pc[t] = "idle"
    /\ Len(log) < MaxSubmits
    /\ log' = Append([i \in DOMAIN log |->
                        IF log[i].ret THEN log[i]
                        ELSE [log[i] EXCEPT !.overlap = TRUE]],
                     [kind |-> Kind(toks),
                      v |-> IF Kind(toks) = "rejected" THEN 0 ELSE IntVal(toks[3]),
                      ret |-> FALSE,
                      overlap |-> \E u \in Submitters : pc[u] # "idle"])
    /\ sub' = [sub EXCEPT ![t].tokens = toks, ![t].seqno = Len(log) + 1,
                          ![t].msg = IF EarlyRc(toks) = 0 THEN "" ELSE "invalid"]
    /\ call' = [call EXCEPT ![t].rc = EarlyRc(toks)]
    /\ pc' = [pc EXCEPT ![t] = IF EarlyRc(toks) = 0 THEN "bar_enter" ELSE "return"]
    /\ UNCHANGED <<last_known_voltage, active_proc, ramp_thread, ramp_cancel_event,
                   ramp_lock, procs, run, requested, confirmed>>
    /\ UNCHANGED front

\* lines 554-555: with ramp_lock: if ramp_thread and ramp_thread.is_alive()
BarrierEnter(t) ==
    /\ pc[t] = "bar_enter"
    /\ ~ramp_lock
    /\ ramp_lock' = TRUE
    /\ sub' = [sub EXCEPT ![t].entered = TRUE,
                          ![t].found = IF IsAlive(ramp_thread) THEN ramp_thread ELSE 0]
    /\ pc' = [pc EXCEPT ![t] = IF IsAlive(ramp_thread) THEN "bar_signal" ELSE "bar_clear"]
    /\ UNCHANGED <<last_known_voltage, active_proc, ramp_thread, ramp_cancel_event,
                   procs, call, run, hist>>
    /\ UNCHANGED front

\* lines 557-561: ramp_cancel_event.set(); waited = 0.0
BarrierSignal(t) ==
    /\ pc[t] = "bar_signal"
    /\ ramp_cancel_event' = TRUE
    /\ sub' = [sub EXCEPT ![t].waited = 0, ![t].signalled = TRUE]
    /\ run' = Signalled
    /\ pc' = [pc EXCEPT ![t] = "bar_loop"]
    /\ UNCHANGED <<last_known_voltage, active_proc, ramp_thread, ramp_lock,
                   procs, call, hist>>
    /\ UNCHANGED front

\* a barrier that waits for the ramp thread without a budget
BarrierLoopUnbounded(t) ==
    /\ pc[t] = "bar_loop"
    /\ IF IsAlive(ramp_thread)
       THEN /\ sub' = [sub EXCEPT ![t].waited = Min(@ + 1, WaitSlices)]
            /\ call' = [call EXCEPT ![t].kret = "bar_loop"]
            /\ pc' = [pc EXCEPT ![t] = "kill_read"]
       ELSE /\ sub' = [sub EXCEPT ![t].waited = 0]
            /\ pc' = [pc EXCEPT ![t] = "bar_clear"]
            /\ UNCHANGED call
    /\ UNCHANGED <<last_known_voltage, active_proc, ramp_thread, ramp_cancel_event,
                   ramp_lock, procs, run, hist>>
    /\ UNCHANGED front

\* lines 562-575: while ramp_thread.is_alive() and waited < wait_total:
\* kill_active_proc(timeout=0.2); sleep; waited += interval.  After the loop
\* join(timeout=0.2) and the log line change no state.
BarrierLoop(t) ==
    /\ pc[t] = "bar_loop"
    /\ IF IsAlive(ramp_thread) /\ sub[t].waited < WaitSlices
       THEN /\ sub' = [sub EXCEPT ![t].waited = @ + 1]
            /\ call' = [call EXCEPT ![t].kret = "bar_loop"]
            /\ pc' = [pc EXCEPT ![t] = "kill_read"]
       ELSE /\ sub' = [sub EXCEPT ![t].waited = 0]
            /\ pc' = [pc EXCEPT ![t] = "bar_clear"]
            /\ UNCHANGED call
    /\ UNCHANGED <<last_known_voltage, active_proc, ramp_thread, ramp_cancel_event,
                   ramp_lock, procs, run, hist>>
    /\ UNCHANGED front

\* lines 577-578: ramp_cancel_event.clear(); kill_active_proc(timeout=0.1)
BarrierClear(t) ==
    /\ pc[t] = "bar_clear"
    /\ ramp_cancel_event' = FALSE
    /\ call' = [call EXCEPT ![t].kret = "post_barrier"]
    /\ run' = Cleared
    /\ pc' = [pc EXCEPT ![t] = "kill_read"]
    /\ UNCHANGED <<last_known_voltage, active_proc, ramp_thread, ramp_lock,
                   procs, sub, hist>>
    /\ UNCHANGED front

\* end of the with block (ramp_lock released), then lines 581-587 and
\* 597-603: the int() conversions of the voltage and the duration
PostBarrier(t) ==
    /\ pc[t] = "post_barrier"
    /\ ramp_lock' = FALSE
    /\ IF ~ValuesOk(sub[t].tokens)
       THEN /\ call' = [call EXCEPT ![t].rc = RcBadValue]
            /\ sub' = [sub EXCEPT ![t].msg = "invalid"]
            /\ pc' = [pc EXCEPT ![t] = "return"]
            /\ UNCHANGED requested
       ELSE /\ pc' = [pc EXCEPT ![t] = IF Len(sub[t].tokens) = 3
                                       THEN "inst_commit" ELSE "ramp_clear"]
            /\ requested' = IF Len(sub[t].tokens) = 3
                            THEN requested \cup {IntVal(sub[t].tokens[3])}
                            ELSE requested
            /\ UNCHANGED <<call, sub>>
    /\ UNCHANGED <<last_known_voltage, active_proc, ramp_thread, ramp_cancel_event,
                   procs, run, log, confirmed>>
    /\ UNCHANGED front

\* lines 588-592: last_known_voltage = v, then _start_proc_and_wait(tokens)
InstantCommit(t) ==
    /\ pc[t] = "inst_commit"
    /\ last_known_voltage' = <<IntVal(sub[t].tokens[3])>>
    /\ sub' = [sub EXCEPT ![t].wrote = TRUE]
    /\ call' = [call EXCEPT ![t].arg = IntVal(sub[t].tokens[3]), ![t].iret = "return"]
    /\ pc' = [pc EXCEPT ![t] = "inv_begin"]
    /\ UNCHANGED <<active_proc, ramp_thread, ramp_cancel_event, ramp_lock,
                   procs, run, hist>>
    /\ UNCHANGED front

\* line 614: ramp_cancel_event.clear()
RampClear(t) ==
    /\ pc[t] = "ramp_clear"
    /\ ramp_cancel_event' = FALSE
    /\ run' = Cleared
    /\ pc' = [pc EXCEPT ![t] = "ramp_assign"]
    /\ UNCHANGED <<last_known_voltage, active_proc, ramp_thread, ramp_lock,
                   procs, call, sub, hist>>
    /\ UNCHANGED front

\* the arguments run_setcom gives the ramp thread, lines 598-611
RampArgs(toks) ==
    [start_v |-> -1, end_v |-> IntVal(toks[3]),
     duration_ms |-> IntVal(toks[4]), offset_ms |-> 0]

\* line 615: ramp_thread = threading.Thread(target=_ramp_runner, args=...)
RampAssign(t) ==
    /\ pc[t] = "ramp_assign"
    /\ \E r \in Runners :
         /\ pc[r] = "unborn"
         /\ \A q \in Runners : q < r => pc[q] # "unborn"
         /\ ramp_thread' = r
         /\ run' = [run EXCEPT ![r].args = RampArgs(sub[t].tokens),
                               ![r].by = sub[t].seqno]
         /\ sub' = [sub EXCEPT ![t].newr = r]
         /\ pc' = [pc EXCEPT ![t] = "ramp_start", ![r] = "created"]
    /\ UNCHANGED <<last_known_voltage, active_proc, ramp_cancel_event, ramp_lock,
                   procs, call, hist>>
    /\ UNCHANGED front

\* lines 616-617: ramp_thread.start(); return 0, "ramp started ...", "".
\* start() is called on the global ramp_thread: None raises AttributeError,
\* a thread that was already started raises RuntimeError, and either exception
\* leaves run_setcom without a return value.
RampStart(t) ==
    /\ pc[t] = "ramp_start"
    /\ IF ramp_thread # 0 /\ pc[ramp_thread] = "created"
       THEN /\ pc' = [pc EXCEPT ![t] = "return", ![ramp_thread] = "resolve"]
            /\ call' = [call EXCEPT ![t].rc = 0]
            /\ sub' = [sub EXCEPT ![t].msg = "ramp started"]
            /\ run' = [run EXCEPT ![ramp_thread].hit = ramp_cancel_event]
       ELSE /\ pc' = [pc EXCEPT ![t] = "return"]
            /\ sub' = [sub EXCEPT ![t].raised = TRUE]
            /\ UNCHANGED <<call, run>>
    /\ UNCHANGED <<last_known_voltage, active_proc, ramp_thread, ramp_cancel_event,
                   ramp_lock, procs, hist>>
    /\ UNCHANGED front

\* run_setcom has returned (rc, out, err) to its caller, or has raised
Return(t) ==
    /\ pc[t] = "return"
    /\ log' = [log EXCEPT ![sub[t].seqno].ret = TRUE]
    /\ sub' = [sub EXCEPT ![t] = SubInit]
    /\ call' = [call EXCEPT ![t] = CallInit]
    /\ pc' = [pc EXCEPT ![t] = "idle"]
    /\ UNCHANGED <<last_known_voltage, active_proc, ramp_thread, ramp_cancel_event,
                   ramp_lock, procs, run, requested, confirmed>>
    /\ UNCHANGED front

(* ------------------------------------------------------------------ *)
(* _ramp_runner, lines 409-523                                         *)
(* ------------------------------------------------------------------ *)
\* a start resolution that never reads last_known_voltage
ResolveStartUnset(start_v) == IF start_v = -1 THEN 0 ELSE start_v

\* lines 420-428: start_v == -1 is resolved from last_known_voltage
ResolveStart(start_v) ==
    IF start_v = -1
    THEN (IF last_known_voltage # <<>> THEN last_known_voltage[1] ELSE 0)
    ELSE start_v

\* the elements of a sequence
Range(s) == {s[i] : i \in DOMAIN s}

\* lines 420-476: resolve the start, skip the offset wait (offset_ms = 0),
\* take the no-op shortcut or plan, then kill_active_proc() and the first
\* _start_proc_and_wait.  s, e and p are the locals start_v, end_v and the
\* plan, each computed once.
RampResolve(r) ==
    /\ pc[r] = "resolve"
    /\ \E s \in {ResolveStart(run[r].args.start_v)}, e \in {run[r].args.end_v} :
       \E p \in {Plan(s, e, run[r].args.duration_ms)} :
           /\ run' = [run EXCEPT ![r].start_v = s,
                                 ![r].seq = IF e = s THEN <<>> ELSE p.seq,
                                 ![r].num = IF e = s THEN 0 ELSE p.num,
                                 ![r].den = IF e = s THEN 1 ELSE p.den,
                                 ![r].phase = IF e = s THEN "noop" ELSE "base"]
           /\ call' = [call EXCEPT ![r].arg = IF e = s THEN e ELSE p.seq[1],
                                   ![r].kret = "inv_begin",
                                   ![r].iret = "commit"]
           /\ requested' = requested \cup {e} \cup (IF e = s THEN {} ELSE Range(p.seq))
    /\ pc' = [pc EXCEPT ![r] = "kill_read"]
    /\ UNCHANGED <<last_known_voltage, active_proc, ramp_thread, ramp_cancel_event,
                   ramp_lock, procs, sub, log, confirmed>>
    /\ UNCHANGED front

\* the start argument as given, -1 included
CommitUnresolvedStart(r) == run[r].args.start_v

\* the voltage a phase of the runner commits after its invocation
CommitValue(r) ==
    CASE run[r].phase = "noop" -> run[r].args.end_v
      [] run[r].phase = "base" -> run[r].seq[1]
      [] run[r].phase = "step" -> run[r].seq[run[r].idx]
      [] OTHER -> run[r].args.end_v

\* a ramp thread that gives up after an invocation that did not return 0
RampCommitStopOnError(r) ==
    /\ pc[r] = "commit"
    /\ IF run[r].phase = "noop" \/ call[r].rc = 0
       THEN last_known_voltage' = <<CommitValue(r)>>
       ELSE UNCHANGED last_known_voltage
    /\ run' = [run EXCEPT ![r].idx = IF run[r].phase = "base" THEN 2 ELSE @,
                          ![r].slept = 0]
    /\ call' = [call EXCEPT ![r].rc = 0]
    /\ pc' = [pc EXCEPT ![r] = CASE call[r].rc # 0 -> "fin_reap"
                                 [] run[r].phase = "base" -> "step_check"
                                 [] run[r].phase = "step" -> "sleep"
                                 [] OTHER -> "fin_reap"]
    /\ UNCHANGED <<active_proc, ramp_thread, ramp_cancel_event, ramp_lock,
                   procs, sub, hist>>
    /\ UNCHANGED front

\* lines 448-450 (no-op: unconditional), 477-481 (baseline), 493-495 (step),
\* 512-514 (final): last_known_voltage = v when rc == 0
RampCommit(r) ==
    /\ pc[r] = "commit"
    /\ IF run[r].phase = "noop" \/ call[r].rc = 0
       THEN last_known_voltage' = <<CommitValue(r)>>
       ELSE UNCHANGED last_known_voltage
    /\ run' = [run EXCEPT ![r].idx = IF run[r].phase = "base" THEN 2 ELSE @,
                          ![r].slept = 0]
    /\ call' = [call EXCEPT ![r].rc = 0]
    /\ pc' = [pc EXCEPT ![r] = CASE run[r].phase = "base" -> "step_check"
                                 [] run[r].phase = "step" -> "sleep"
                                 [] OTHER -> "fin_reap"]
    /\ UNCHANGED <<active_proc, ramp_thread, ramp_cancel_event, ramp_lock,
                   procs, sub, hist>>
    /\ UNCHANGED front

\* the head of the step loop without its cancel check (lines 485-487 left out)
RampStepCheckNoCancel(r) ==
    /\ pc[r] = "step_check"
    /\ IF run[r].idx > Len(run[r].seq)
       THEN /\ pc' = [pc EXCEPT ![r] = "fin_reap"]
            /\ UNCHANGED <<run, call>>
       ELSE /\ run' = [run EXCEPT ![r].phase = "step"]
            /\ call' = [call EXCEPT ![r].arg = run[r].seq[run[r].idx],
                                    ![r].iret = "commit"]
            /\ pc' = [pc EXCEPT ![r] = "inv_begin"]
    /\ UNCHANGED <<last_known_voltage, active_proc, ramp_thread, ramp_cancel_event,
                   ramp_lock, procs, sub, hist>>
    /\ UNCHANGED front

\* lines 484-491: the head of the step loop, its cancel check and the next
\* _start_proc_and_wait; lines 508-511 once the loop is over
RampStepCheck(r) ==
    /\ pc[r] = "step_check"
    /\ IF run[r].idx > Len(run[r].seq)
       THEN IF run[r].seq[Len(run[r].seq)] # run[r].args.end_v
            THEN /\ run' = [run EXCEPT ![r].phase = "final"]
                 /\ call' = [call EXCEPT ![r].arg = run[r].args.end_v,
                                         ![r].kret = "inv_begin",
                                         ![r].iret = "commit"]
                 /\ pc' = [pc EXCEPT ![r] = "kill_read"]
            ELSE /\ pc' = [pc EXCEPT ![r] = "fin_reap"]
                 /\ UNCHANGED <<run, call>>
       ELSE IF ramp_cancel_event
            THEN /\ pc' = [pc EXCEPT ![r] = "fin_reap"]
                 /\ UNCHANGED <<run, call>>
            ELSE /\ run' = [run EXCEPT ![r].phase = "step"]
                 /\ call' = [call EXCEPT ![r].arg = run[r].seq[run[r].idx],
                                         ![r].iret = "commit"]
                 /\ pc' = [pc EXCEPT ![r] = "inv_begin"]
    /\ UNCHANGED <<last_known_voltage, active_proc, ramp_thread, ramp_cancel_event,
                   ramp_lock, procs, sub, hist>>
    /\ UNCHANGED front

\* lines 498-506: one iteration of "while slept < interval_s": the cancel
\* check, then a slice of sleep; after the last slice the next step
RampSleep(r) ==
    /\ pc[r] = "sleep"
    /\ IF run[r].slept < SleepSlices(run[r].num, run[r].den)
       THEN IF ramp_cancel_event
            THEN /\ call' = [call EXCEPT ![r].kret = "fin_reap"]
                 /\ pc' = [pc EXCEPT ![r] = "kill_read"]
                 /\ UNCHANGED run
            ELSE /\ run' = [run EXCEPT ![r].slept = @ + 1]
                 /\ UNCHANGED <<pc, call>>
       ELSE /\ run' = [run EXCEPT ![r].idx = @ + 1, ![r].slept = 0]
            /\ pc' = [pc EXCEPT ![r] = "step_check"]
            /\ UNCHANGED call
    /\ UNCHANGED <<last_known_voltage, active_proc, ramp_thread, ramp_cancel_event,
                   ramp_lock, procs, sub, hist>>
    /\ UNCHANGED front

\* lines 520-522: finally: with ramp_lock: ramp_thread = None
RampReap(r) ==
    /\ pc[r] = "fin_reap"
    /\ ~ramp_lock
    /\ ramp_lock' = TRUE
    /\ ramp_thread' = 0
    /\ pc' = [pc EXCEPT ![r] = "fin_clear"]
    /\ UNCHANGED <<last_known_voltage, active_proc, ramp_cancel_event,
                   procs, call, sub, run, hist>>
    /\ UNCHANGED front

\* line 523: ramp_cancel_event.clear(); the lock is released and the thread ends
RampReapClear(r) ==
    /\ pc[r] = "fin_clear"
    /\ ramp_cancel_event' = FALSE
    /\ ramp_lock' = FALSE
    /\ run' = [Cleared EXCEPT ![r] = [RunInit EXCEPT !.args = run[r].args]]
    /\ pc' = [pc EXCEPT ![r] = "dead"]
    /\ UNCHANGED <<last_known_voltage, active_proc, ramp_thread,
                   procs, call, sub, hist>>
    /\ UNCHANGED front

(* ------------------------------------------------------------------ *)
(* shutdown, lines 849-857: the handler of SIGINT and SIGTERM, run by   *)
(* the main thread                                                      *)
(* ------------------------------------------------------------------ *)
\* lines 850-854: the signal arrives; _graceful_shutdown = True;
\* stop_event.set()
ShutdownRequest ==
    /\ pc[Main] = "serving"
    /\ pc' = [pc EXCEPT ![Main] = "shut_signal"]
    /\ UNCHANGED <<last_known_voltage, active_proc, ramp_thread, ramp_cancel_event,
                   ramp_lock, procs, call, sub, run, hist>>
    /\ UNCHANGED front

\* lines 855-857: with ramp_lock: ramp_cancel_event.set(); then
\* kill_active_proc(timeout=0.5), after which shutdown returns
ShutdownSignal ==
    /\ pc[Main] = "shut_signal"
    /\ ~ramp_lock
    /\ ramp_cancel_event' = TRUE
    /\ run' = ShutSignalled
    /\ call' = [call EXCEPT ![Main].kret = "shut_done"]
    /\ pc' = [pc EXCEPT ![Main] = "kill_read"]
    /\ UNCHANGED <<last_known_voltage, active_proc, ramp_thread, ramp_lock,
                   procs, sub, hist>>
    /\ UNCHANGED front

(* ------------------------------------------------------------------ *)
(* The system                                                          *)
(* ------------------------------------------------------------------ *)
\* the steps of run_setcom by the submitters S, on the command lines cmds
SubmitterStep(S, cmds) ==
    \/ \E t \in S, toks \in cmds : Submit(t, toks)
    \/ \E t \in S : BarrierEnter(t)
    \/ \E t \in S : BarrierSignal(t)
    \/ \E t \in S : BarrierLoop(t)
    \/ \E t \in S : BarrierClear(t)
    \/ \E t \in S : PostBarrier(t)
    \/ \E t \in S : InstantCommit(t)
    \/ \E t \in S : RampClear(t)
    \/ \E t \in S : RampAssign(t)
    \/ \E t \in S : RampStart(t)
    \/ \E t \in S : Return(t)

\* the steps of the ramp threads
RunnerStep ==
    \/ \E r \in Runners : RampResolve(r)
    \/ \E r \in Runners : RampCommit(r)
    \/ \E r \in Runners : RampStepCheck(r)
    \/ \E r \in Runners : RampSleep(r)
    \/ \E r \in Runners : RampReap(r)
    \/ \E r \in Runners : RampReapClear(r)

\* the steps of kill_active_proc and _start_proc_and_wait, by any thread
InvokerStep ==
    \/ \E t \in Threads : KillRead(t)
    \/ \E t \in Threads : KillTerminate(t)
    \/ \E t \in Threads : KillClear(t)
    \/ \E t \in Threads : InvokeBegin(t)
    \/ \E t \in Threads : InvokePopen(t)
    \/ \E t \in Threads : InvokePublish(t)
    \/ \E t \in Threads : InvokeWait(t)
    \/ \E t \in Threads : InvokeClear(t)

\* what can go wrong with the device tool
FaultStep ==
    \/ \E t \in Threads : InvokeToolMissing(t)
    \/ \E t \in Threads : InvokeSpawnFail(t)
    \/ \E t \in Threads : InvokeTimeout(t)

\* One frontend thread submits any of the command lines; the device tool
\* may be missing, fail to start, hang, fail, or echo a voltage.
Next ==
    \/ SubmitterStep({1}, Commands)
    \/ RunnerStep
    \/ InvokerStep
    \/ FaultStep
    \/ \E c \in ProcIds, rc \in ToolRcs, e \in Echoes : ChildExit(c, rc, e)

Spec == Init /\ [][Next]_vars

\* All frontend threads submit valid command lines concurrently; the device
\* tool always starts and exits 0 without echo.
NextRace ==
    \/ SubmitterStep(Submitters, {cInstant, cRamp})
    \/ RunnerStep
    \/ InvokerStep
    \/ \E c \in ProcIds : ChildExit(c, 0, <<>>)

SpecRace == Init /\ [][NextRace]_vars

\* All frontend threads submit concurrently, invalid command lines included;
\* the device tool always starts and exits 0 without echo.
NextMixed ==
    \/ SubmitterStep(Submitters, {cInstant, cRamp} \cup InvalidCommands)
    \/ RunnerStep
    \/ InvokerStep
    \/ \E c \in ProcIds : ChildExit(c, 0, <<>>)

SpecMixed == Init /\ [][NextMixed]_vars

\* what thread t does by itself once it has work: every step but the arrival
\* of a command line
ThreadStep(t) ==
    \/ /\ t \in Submitters
       /\ \/ BarrierEnter(t) \/ BarrierSignal(t) \/ BarrierLoop(t) \/ BarrierClear(t)
          \/ PostBarrier(t) \/ InstantCommit(t) \/ RampClear(t) \/ RampAssign(t)
          \/ RampStart(t) \/ Return(t)
    \/ /\ t \in Runners
       /\ \/ RampResolve(t) \/ RampCommit(t) \/ RampStepCheck(t) \/ RampSleep(t)
          \/ RampReap(t) \/ RampReapClear(t)
    \/ KillRead(t) \/ KillTerminate(t) \/ KillClear(t)
    \/ InvokeBegin(t) \/ InvokePopen(t) \/ InvokePublish(t) \/ InvokeWait(t)
    \/ InvokeClear(t)

\* a step of a thread that has work, or the end of a child
Progress ==
    \/ \E t \in Submitters \cup Runners : ThreadStep(t)
    \/ \E c \in ProcIds : ChildExit(c, 0, <<>>)

\* One frontend thread submits a ramp and then an instant command; the device
\* tool always starts and exits 0.  The program does not stop while a thread has a step
\* to take (the threads are operating-system threads) or a child runs (it
\* ends by itself, or at the timeout of lines 329-339).
NextCancel ==
    \/ SubmitterStep({1}, IF log = <<>> THEN {cRamp} ELSE {cInstant})
    \/ RunnerStep
    \/ InvokerStep
    \/ \E c \in ProcIds : ChildExit(c, 0, <<>>)

SpecCancel ==
    /\ Init
    /\ [][NextCancel]_vars
    /\ WF_vars(Progress)

\* One frontend thread submits a ramp command, alone or after an instant
\* command has returned: the ramp is never cancelled and no child runs when
\* a barrier or the ramp thread calls kill_active_proc.  The device tool may
\* be missing, fail to start, hang until the timeout, or exit with 0 or 1.
RampWork ==
    \/ BarrierEnter(1) \/ BarrierClear(1) \/ PostBarrier(1) \/ InstantCommit(1)
    \/ RampClear(1) \/ RampAssign(1) \/ RampStart(1) \/ Return(1)
    \/ RunnerStep
    \/ \E t \in Threads : KillRead(t)
    \/ \E t \in Threads : InvokeBegin(t)
    \/ \E t \in Threads : InvokePopen(t)
    \/ \E t \in Threads : InvokePublish(t)
    \/ \E t \in Threads : InvokeWait(t)
    \/ \E t \in Threads : InvokeClear(t)
    \/ FaultStep
    \/ \E c \in ProcIds, rc \in ToolRcs : ChildExit(c, rc, <<>>)

NextRamp ==
    \/ \E toks \in (IF log = <<>> THEN {cInstant, cRamp}
                     ELSE IF Len(log) = 1 /\ log[1].kind = "instant" THEN {cRamp}
                     ELSE {}) :
         Submit(1, toks)
    \/ RampWork

\* the program does not stop while a thread has a step to take or a child
\* runs (it ends by itself, or at the timeout of lines 329-339)
SpecRamp == Init /\ [][NextRamp]_vars /\ WF_vars(RampWork)

\* the signal handler
MainStep ==
    \/ ShutdownRequest
    \/ ShutdownSignal

\* One frontend thread submits valid command lines and a signal asks for
\* shutdown at any moment; the device tool always starts and exits 0.
NextShutdown ==
    \/ SubmitterStep({1}, {cInstant, cRamp})
    \/ RunnerStep
    \/ InvokerStep
    \/ MainStep
    \/ \E c \in ProcIds : ChildExit(c, 0, <<>>)

SpecShutdown == Init /\ [][NextShutdown]_vars

\* One frontend thread submits a ramp command and then, once that call has
\* returned, a ramp or an instant command: the barrier of the second call
\* meets the first ramp thread.  The device tool always starts; a child
\* exits 0 or is killed at the timeout of lines 329-339.
NextReturn ==
    \/ SubmitterStep({1}, IF log = <<>> THEN {cRamp}
                          ELSE IF Len(log) = 1 THEN {cInstant, cRamp} ELSE {})
    \/ RunnerStep
    \/ InvokerStep
    \/ \E t \in Threads : InvokeTimeout(t)
    \/ \E c \in ProcIds : ChildExit(c, 0, <<>>)

\* the program does not stop while a thread has a step to take, and a
\* running child ends by itself or at the timeout
SpecReturn == Init /\ [][NextReturn]_vars /\ WF_vars(Progress)

(* ------------------------------------------------------------------ *)
(* Command texts, the queue, and run_setcom as its callers see it      *)
(* ------------------------------------------------------------------ *)

FLUSH_LIMIT == 50
MaxPosts == 2

CR == "\r"
LF == "\n"
\* the ASCII whitespace that str.split() and str.strip() drop
Whitespace == {" ", "\t", CR, LF}

\* str.split(): the maximal runs of non-whitespace characters
RECURSIVE SplitAcc(_, _, _)
SplitAcc(text, cur, acc) ==
    IF text = <<>> THEN (IF cur = <<>> THEN acc ELSE Append(acc, cur))
    ELSE IF Head(text) \in Whitespace
         THEN SplitAcc(Tail(text), <<>>, IF cur = <<>> THEN acc ELSE Append(acc, cur))
         ELSE SplitAcc(Tail(text), Append(cur, Head(text)), acc)

Split(text) == SplitAcc(text, <<>>, <<>>)

\* a command line as a client writes it: the tokens separated by one blank
RECURSIVE Join(_)
Join(toks) ==
    IF toks = <<>> THEN <<>>
    ELSE IF Len(toks) = 1 THEN toks[1]
    ELSE toks[1] \o <<" ">> \o Join(Tail(toks))

xInstant == Join(cInstant)
xInstant2 == Join(<<tCom3, tOne, tTwo>>)
xRamp == Join(cRamp)
xShort == Join(cShort)
xVolt == Join(cVolt)

\* INSERT INTO queue (cmd, created_at): the new row gets the next id
Enqueue(d, cmd_text) ==
    [rows |-> Append(d.rows, [id |-> d.seq + 1, cmd |-> cmd_text, sent |-> FALSE]),
     seq |-> d.seq + 1]

\* id is the INTEGER PRIMARY KEY of the table, the key its rows are stored
\* under: rows holds them in that order, and Enqueue keeps it so
Unsent(d) == SelectSeq(d.rows, LAMBDA r : ~r.sent)

\* a query that returns the newest rows first
GetUnsentNewestFirst(d, limit) ==
    [k \in 1..Min(limit, Len(Unsent(d))) |->
        [id |-> Unsent(d)[Len(Unsent(d)) + 1 - k].id,
         cmd |-> Unsent(d)[Len(Unsent(d)) + 1 - k].cmd]]

\* SELECT id, cmd FROM queue WHERE sent_at IS NULL ORDER BY id ASC LIMIT ?
GetUnsent(d, limit) ==
    [k \in 1..Min(limit, Len(Unsent(d))) |->
        [id |-> Unsent(d)[k].id, cmd |-> Unsent(d)[k].cmd]]

\* an update that drops the row instead of stamping it
MarkSentAndPurge(d, row_id) ==
    [d EXCEPT !.rows = SelectSeq(@, LAMBDA r : r.id # row_id)]

\* UPDATE queue SET sent_at = ? WHERE id = ?
MarkSent(d, row_id) ==
    [d EXCEPT !.rows = [k \in DOMAIN @ |->
                          IF @[k].id = row_id THEN [@[k] EXCEPT !.sent = TRUE] ELSE @[k]]]

\* run_setcom as a caller sees it.  The frontends below do not step through
\* run_setcom; they take its result from this summary of the actions above:
\* a rejected line returns its validation code, an instant returns what
\* _start_proc_and_wait returns, a ramp returns 0.
IsRamp(toks) == EarlyRc(toks) = 0 /\ ValuesOk(toks) /\ Len(toks) = 4

\* everything _start_proc_and_wait can return
InvokeRcs == {RcToolMissing, RcSpawnFailed, RcTimeout, RcTerminated} \cup ToolRcs

\* the tool is installed, starts, and exits 0 in time; nobody kills it
QuietRcs == {0}

SubmitRcs(toks, inv) ==
    IF EarlyRc(toks) # 0 THEN {EarlyRc(toks)}
    ELSE IF ~ValuesOk(toks) THEN {RcBadValue}
    ELSE IF Len(toks) = 3 THEN inv
    ELSE {0}

\* line 616 raises when ramp_thread was reassigned or cleared after line 615:
\* by the finally block of a ramp thread that is still alive, or by another
\* ramp submit running at the same time
MayRaise(toks) == IsRamp(toks) /\ (disp.alive \/ disp.ramps >= 2)

\* a caller enters run_setcom
Entered(toks) == [disp EXCEPT !.ramps = @ + (IF IsRamp(toks) THEN 1 ELSE 0)]

\* a caller leaves run_setcom with rc, or with an exception
Left(toks, rc, raised) ==
    [ramps |-> disp.ramps - (IF IsRamp(toks) THEN 1 ELSE 0),
     alive |-> IF raised THEN (disp.ramps >= 2 /\ disp.alive)
               ELSE (disp.alive \/ IsRamp(toks))]

\* The summary agrees with the actions of run_setcom: what a call returns is
\* in SubmitRcs, and only a ramp submit that follows or overlaps another
\* ramp submit raises.
RunSetcomSummary ==
    \A t \in Submitters :
      pc[t] = "return" =>
        IF sub[t].raised
        THEN /\ IsRamp(sub[t].tokens)
             /\ \E k \in 1..Len(log) : k # sub[t].seqno /\ log[k].kind = "ramp"
        ELSE call[t].rc \in SubmitRcs(sub[t].tokens, InvokeRcs)

(* ------------------------------------------------------------------ *)
(* POST /send                                                          *)
(* ------------------------------------------------------------------ *)

Paths == {"/send", "/status"}
\* the "cmd" of the JSON body; <<>> when the key is missing or empty
PostBodies == {<<>>, xInstant, xShort, xRamp}

\* lines 705-715: the path and the body are checked; 404 and 400 return
HttpReceive(h, path, cmd) ==
    /\ http[h].pc = "idle"
    /\ trail.posts < MaxPosts
    /\ http' = [http EXCEPT ![h] =
                  IF path # "/send" THEN [HttpInit EXCEPT !.status = 404]
                  ELSE IF cmd = <<>> THEN [HttpInit EXCEPT !.status = 400]
                  ELSE [HttpInit EXCEPT !.pc = "enqueue", !.cmd = cmd]]
    /\ trail' = [trail EXCEPT !.posts = @ + 1]
    /\ UNCHANGED <<db, flusher, conn, disp>>
    /\ UNCHANGED core

\* line 716: row_id = db.enqueue(cmd)
HttpEnqueue(h) ==
    /\ http[h].pc = "enqueue"
    /\ db' = Enqueue(db, http[h].cmd)
    /\ http' = [http EXCEPT ![h].row_id = db'.seq, ![h].pc = "call"]
    /\ trail' = [trail EXCEPT !.enq = Append(@, db'.seq)]
    /\ UNCHANGED <<flusher, conn, disp>>
    /\ UNCHANGED core

\* lines 717-718: tokens = cmd.split(); run_setcom(tokens) is entered
HttpCall(h) ==
    /\ http[h].pc = "call"
    /\ http' = [http EXCEPT ![h].tokens = Split(http[h].cmd), ![h].pc = "wait"]
    /\ disp' = Entered(Split(http[h].cmd))
    /\ UNCHANGED <<db, flusher, conn, trail>>
    /\ UNCHANGED core

\* line 718: run_setcom returns rc
HttpReturn(h, inv) ==
    /\ http[h].pc = "wait"
    /\ \E rc \in SubmitRcs(http[h].tokens, inv) :
         /\ http' = [http EXCEPT ![h].rc = rc, ![h].pc = "got"]
         /\ disp' = Left(http[h].tokens, rc, FALSE)
         /\ trail' = IF rc = 0 THEN [trail EXCEPT !.ok = @ \cup {http[h].row_id}]
                     ELSE trail
    /\ UNCHANGED <<db, flusher, conn>>
    /\ UNCHANGED core

\* lines 718, 724-726: run_setcom raises; the handler's except answers 500
HttpRaise(h) ==
    /\ http[h].pc = "wait"
    /\ MayRaise(http[h].tokens)
    /\ http' = [http EXCEPT ![h].raised = TRUE, ![h].status = 500,
                            ![h].cmd = <<>>, ![h].tokens = <<>>, ![h].pc = "idle"]
    /\ disp' = Left(http[h].tokens, 0, TRUE)
    /\ UNCHANGED <<db, flusher, conn, trail>>
    /\ UNCHANGED core

\* a handler that stamps the row whatever run_setcom returned
HttpMarkAlways(h) ==
    /\ http[h].pc = "got"
    /\ db' = MarkSent(db, http[h].row_id)
    /\ http' = [http EXCEPT ![h].marked = TRUE, ![h].pc = "reply"]
    /\ UNCHANGED <<flusher, conn, disp, trail>>
    /\ UNCHANGED core

\* lines 719-720: if rc == 0: db.mark_sent(row_id)
HttpMark(h) ==
    /\ http[h].pc = "got"
    /\ http[h].rc = 0
    /\ db' = MarkSent(db, http[h].row_id)
    /\ http' = [http EXCEPT ![h].marked = TRUE, ![h].pc = "reply"]
    /\ UNCHANGED <<flusher, conn, disp, trail>>
    /\ UNCHANGED core

\* lines 721-723: the reply: 200 after mark_sent, 500 when rc is not 0
HttpReply(h) ==
    /\ \/ http[h].pc = "reply"
       \/ http[h].pc = "got" /\ http[h].rc # 0
    /\ http' = [http EXCEPT ![h].status = IF http[h].rc = 0 THEN 200 ELSE 500,
                            ![h].cmd = <<>>, ![h].tokens = <<>>, ![h].pc = "idle"]
    /\ UNCHANGED <<db, flusher, conn, disp, trail>>
    /\ UNCHANGED core

(* ------------------------------------------------------------------ *)
(* The queue flusher                                                   *)
(* ------------------------------------------------------------------ *)

\* line 762: rows = db.get_unsent(limit=50)
FlushFetch ==
    /\ flusher.pc = "sleep"
    /\ flusher' = [FlusherInit EXCEPT !.pc = "loop", !.rows = GetUnsent(db, FLUSH_LIMIT),
                                      !.i = 1]
    /\ UNCHANGED <<db, http, conn, disp, trail>>
    /\ UNCHANGED core

\* lines 765-768: the next row of this tick: run_setcom(cmd.split()) is entered
FlushCall ==
    /\ flusher.pc = "loop"
    /\ flusher.i <= Len(flusher.rows)
    /\ flusher' = [flusher EXCEPT !.tokens = Split(flusher.rows[flusher.i].cmd),
                                  !.done = Append(@, flusher.rows[flusher.i].id),
                                  !.pc = "wait"]
    /\ disp' = Entered(Split(flusher.rows[flusher.i].cmd))
    /\ UNCHANGED <<db, http, conn, trail>>
    /\ UNCHANGED core

\* a flusher that goes on to mark_sent whatever run_setcom returned
FlushReturnMarksAll(inv) ==
    /\ flusher.pc = "wait"
    /\ \E rc \in SubmitRcs(flusher.tokens, inv) :
         /\ flusher' = [flusher EXCEPT !.tokens = <<>>, !.pc = "mark"]
         /\ disp' = Left(flusher.tokens, rc, FALSE)
         /\ trail' = IF rc = 0
                     THEN [trail EXCEPT !.ok = @ \cup {flusher.rows[flusher.i].id}]
                     ELSE trail
    /\ UNCHANGED <<db, http, conn>>
    /\ UNCHANGED core

\* lines 768-772: run_setcom returns; a row that failed is left for a later tick
FlushReturn(inv) ==
    /\ flusher.pc = "wait"
    /\ \E rc \in SubmitRcs(flusher.tokens, inv) :
         /\ flusher' = [flusher EXCEPT !.tokens = <<>>,
                                       !.pc = IF rc = 0 THEN "mark" ELSE "loop",
                                       !.i = IF rc = 0 THEN @ ELSE @ + 1]
         /\ disp' = Left(flusher.tokens, rc, FALSE)
         /\ trail' = IF rc = 0
                     THEN [trail EXCEPT !.ok = @ \cup {flusher.rows[flusher.i].id}]
                     ELSE trail
    /\ UNCHANGED <<db, http, conn>>
    /\ UNCHANGED core

\* lines 773-774: run_setcom raises; logged, the loop goes on with the next row
FlushRaise ==
    /\ flusher.pc = "wait"
    /\ MayRaise(flusher.tokens)
    /\ flusher' = [flusher EXCEPT !.tokens = <<>>, !.pc = "loop", !.i = @ + 1]
    /\ disp' = Left(flusher.tokens, 0, TRUE)
    /\ UNCHANGED <<db, http, conn, trail>>
    /\ UNCHANGED core

\* lines 769-770: db.mark_sent(row_id)
FlushMark ==
    /\ flusher.pc = "mark"
    /\ db' = MarkSent(db, flusher.rows[flusher.i].id)
    /\ flusher' = [flusher EXCEPT !.pc = "loop", !.i = @ + 1]
    /\ UNCHANGED <<http, conn, disp, trail>>
    /\ UNCHANGED core

\* lines 775-778: the rows of this tick are done; sleep FLUSH_INTERVAL seconds
FlushSleep ==
    /\ flusher.pc = "loop"
    /\ flusher.i > Len(flusher.rows)
    /\ flusher' = [flusher EXCEPT !.pc = "sleep"]
    /\ UNCHANGED <<db, http, conn, disp, trail>>
    /\ UNCHANGED core

(* ------------------------------------------------------------------ *)
(* One TCP connection                                                  *)
(* ------------------------------------------------------------------ *)

\* str.strip()
RECURSIVE LStrip(_)
LStrip(text) ==
    IF text # <<>> /\ Head(text) \in Whitespace THEN LStrip(Tail(text)) ELSE text

RECURSIVE RStrip(_)
RStrip(text) ==
    IF text # <<>> /\ text[Len(text)] \in Whitespace
    THEN RStrip(SubSeq(text, 1, Len(text) - 1)) ELSE text

Strip(text) == RStrip(LStrip(text))

\* b in buf
Has(buf, b) == \E k \in 1..Len(buf) : buf[k] = b

\* buf.partition(b): what precedes the first b, and what follows it
Partition(buf, b) ==
    LET k == CHOOSE j \in 1..Len(buf) : buf[j] = b /\ \A m \in 1..(j - 1) : buf[m] # b
    IN  [line |-> SubSeq(buf, 1, k - 1), rest |-> SubSeq(buf, k + 1, Len(buf))]

\* lines 635-638: CR is looked for first, LF only in a buffer without CR
Terminator(buf) == IF Has(buf, CR) THEN CR ELSE LF

\* lines 645-649: the reply to a command that returned rc
Reply(rc) == IF rc = 0 THEN [tag |-> "OK", rc |-> rc] ELSE [tag |-> "ERR", rc |-> rc]

\* what one client sends over its connection
Wires ==
    { xInstant \o <<CR>>,
      xInstant \o <<CR, LF>>,
      xInstant \o <<LF>> \o xInstant2 \o <<LF>>,
      xInstant \o <<LF>> \o xInstant2 \o <<CR>>,
      xRamp \o <<CR>> \o xRamp \o <<CR>>,
      <<" ", LF>> \o xVolt \o <<CR>>,
      xShort \o <<LF>> }

\* lines 629-633: recv returns the next k bytes
TcpRecv(k) ==
    /\ conn.pc = "recv"
    /\ k \in 1..Len(conn.wire)
    /\ conn' = [conn EXCEPT !.buf = @ \o SubSeq(conn.wire, 1, k),
                            !.got = @ \o SubSeq(conn.wire, 1, k),
                            !.wire = SubSeq(@, k + 1, Len(@)),
                            !.pc = "frame"]
    /\ UNCHANGED <<db, http, flusher, disp, trail>>
    /\ UNCHANGED core

\* lines 629-632, 659-664: recv returns b"": the client has closed
TcpEof ==
    /\ conn.pc = "recv"
    /\ conn.wire = <<>>
    /\ conn' = [conn EXCEPT !.pc = "closed"]
    /\ UNCHANGED <<db, http, flusher, disp, trail>>
    /\ UNCHANGED core

\* line 634: no terminator in the buffer: back to recv
TcpNeedMore ==
    /\ conn.pc = "frame"
    /\ ~Has(conn.buf, CR) /\ ~Has(conn.buf, LF)
    /\ conn' = [conn EXCEPT !.pc = "recv"]
    /\ UNCHANGED <<db, http, flusher, disp, trail>>
    /\ UNCHANGED core

\* lines 634-638: the next line is cut off the buffer
TcpFrame ==
    /\ conn.pc = "frame"
    /\ Has(conn.buf, CR) \/ Has(conn.buf, LF)
    /\ LET p == Partition(conn.buf, Terminator(conn.buf))
       IN  conn' = [conn EXCEPT !.line = p.line, !.buf = p.rest, !.pc = "line"]
    /\ UNCHANGED <<db, http, flusher, disp, trail>>
    /\ UNCHANGED core

\* lines 639-641: an empty line is skipped
TcpSkip ==
    /\ conn.pc = "line"
    /\ Strip(conn.line) = <<>>
    /\ conn' = [conn EXCEPT !.pc = "frame"]
    /\ UNCHANGED <<db, http, flusher, disp, trail>>
    /\ UNCHANGED core

\* lines 642-644: tokens = text.split(); run_setcom(tokens) is entered
TcpCall ==
    /\ conn.pc = "line"
    /\ Strip(conn.line) # <<>>
    /\ conn' = [conn EXCEPT !.tokens = Split(Strip(conn.line)),
                            !.lines = Append(@, Split(Strip(conn.line))),
                            !.pc = "wait"]
    /\ disp' = Entered(Split(Strip(conn.line)))
    /\ UNCHANGED <<db, http, flusher, trail>>
    /\ UNCHANGED core

\* lines 644-653: run_setcom returns rc; the reply is sent
TcpReturn(inv) ==
    /\ conn.pc = "wait"
    /\ \E rc \in SubmitRcs(conn.tokens, inv) :
         /\ conn' = [conn EXCEPT !.out = Append(@, Reply(rc)), !.pc = "frame"]
         /\ disp' = Left(conn.tokens, rc, FALSE)
    /\ UNCHANGED <<db, http, flusher, trail>>
    /\ UNCHANGED core

\* lines 644, 656-664: run_setcom raises: the handler leaves its loop and
\* closes the connection
TcpRaise ==
    /\ conn.pc = "wait"
    /\ MayRaise(conn.tokens)
    /\ conn' = [conn EXCEPT !.pc = "closed"]
    /\ disp' = Left(conn.tokens, 0, TRUE)
    /\ UNCHANGED <<db, http, flusher, trail>>
    /\ UNCHANGED core

(* ------------------------------------------------------------------ *)
(* The frontends as systems                                            *)
(* ------------------------------------------------------------------ *)

\* the queue file found at start-up: empty, or a few rows
StartQueues ==
    {<<>>, <<xInstant>>, <<xShort, xInstant>>, <<xRamp, xVolt, xRamp>>}

\* FLUSH_LIMIT rows that can never succeed, followed by a valid one
Clogged == [i \in 1..FLUSH_LIMIT |-> xShort] \o <<xInstant>>

HttpStep(h, inv) ==
    \/ HttpEnqueue(h)
    \/ HttpCall(h)
    \/ HttpReturn(h, inv)
    \/ HttpRaise(h)
    \/ HttpMark(h)
    \/ HttpReply(h)

FlusherStep(inv) ==
    \/ FlushFetch
    \/ FlushCall
    \/ FlushReturn(inv)
    \/ FlushRaise
    \/ FlushMark
    \/ FlushSleep

TcpStep(inv) ==
    \/ \E k \in 1..Len(conn.wire) : TcpRecv(k)
    \/ TcpEof
    \/ TcpNeedMore
    \/ TcpFrame
    \/ TcpSkip
    \/ TcpCall
    \/ TcpReturn(inv)
    \/ TcpRaise

\* POST /send handlers and the flusher share the queue; the tool is installed
\* and starts, and exits with one of ToolRcs
InitQueue == CoreInit /\ \E q \in StartQueues : FrontInit(q, <<>>)

NextQueue ==
    \/ \E h \in HttpIds, path \in Paths, cmd \in PostBodies : HttpReceive(h, path, cmd)
    \/ \E h \in HttpIds : HttpStep(h, ToolRcs)
    \/ FlusherStep(ToolRcs)

SpecQueue == InitQueue /\ [][NextQueue]_vars

\* one POST /send at a time and the flusher, on a queue that holds a ramp
\* at start-up; both threads keep running
StartFair == <<xRamp>>
InitQueueFair == CoreInit /\ FrontInit(StartFair, <<>>)

NextQueueFair ==
    \/ \E cmd \in {xInstant, xRamp} : HttpReceive(1, "/send", cmd)
    \/ HttpStep(1, ToolRcs)
    \/ FlusherStep(ToolRcs)

SpecQueueFair ==
    /\ InitQueueFair
    /\ [][NextQueueFair]_vars
    /\ WF_vars(HttpStep(1, ToolRcs))
    /\ WF_vars(FlusherStep(ToolRcs))

\* no live traffic, the tool succeeds: the flusher alone works on the queue
InitFlush == CoreInit /\ \E q \in StartQueues \cup {Clogged} : FrontInit(q, <<>>)

NextFlush == FlusherStep(QuietRcs)

SpecFlush == InitFlush /\ [][NextFlush]_vars /\ WF_vars(NextFlush)

\* the ids a row of the queue can have under SpecQueueFair
RowIds == 1..(Len(StartFair) + MaxPosts)

\* the row with the given id is stamped
IsSent(id) == \E k \in DOMAIN db.rows : db.rows[k].id = id /\ db.rows[k].sent

\* the text is a command that run_setcom accepts
ValidText(text) == Kind(Split(text)) # "rejected"

\* the lines a byte stream holds when a line ends at each CR or LF: the
\* tokens of every complete line that is not blank
RECURSIVE LinesAcc(_, _, _)
LinesAcc(bytes, cur, acc) ==
    IF bytes = <<>> THEN acc
    ELSE IF Head(bytes) \in {CR, LF}
         THEN LinesAcc(Tail(bytes), <<>>,
                       IF Strip(cur) = <<>> THEN acc ELSE Append(acc, Split(cur)))
         ELSE LinesAcc(Tail(bytes), Append(cur, Head(bytes)), acc)

LinesOf(bytes) == LinesAcc(bytes, <<>>, <<>>)

\* one TCP client
InitTcp == CoreInit /\ \E w \in Wires : FrontInit(<<>>, w)

NextTcp == TcpStep(InvokeRcs)

SpecTcp == InitTcp /\ [][NextTcp]_vars

(* ------------------------------------------------------------------ *)
(* The planner on its own: a ramp thread has just been started, and    *)
(* resolves its start and plans                                        *)
(* ------------------------------------------------------------------ *)
\* voltages and durations the plans are computed for.  max_intervals is
\* computed in floating point by the code and in integers here: the two agree
\* for every duration below 2320 ms.
PlanMaxVolt == 6
PlanVolts == 0..PlanMaxVolt
PlanDurations == {0, 1, 40, 41, 79, 80, 159, 160, 200, 240, 400, 1000}

\* the runner whose plan is looked at
Planner == FirstRunner

\* run_setcom has started the ramp thread with the arguments of lines 598-611
\* and has returned; last_known_voltage is what earlier commands left
InitPlan ==
    /\ \E lkv \in {<<>>} \cup {<<v>> : v \in PlanVolts} : last_known_voltage = lkv
    /\ active_proc = 0
    /\ ramp_thread = Planner
    /\ ramp_cancel_event = FALSE
    /\ ramp_lock = FALSE
    /\ procs = [c \in ProcIds |-> FreeProc]
    /\ pc = [t \in Threads |-> IF t \in Submitters THEN "idle"
                                ELSE IF t = Main THEN "serving"
                                ELSE IF t = Planner THEN "resolve" ELSE "unborn"]
    /\ call = [t \in Threads |-> CallInit]
    /\ sub = [t \in Submitters |-> SubInit]
    /\ \E e \in PlanVolts, d \in PlanDurations :
         /\ run = [r \in Runners |->
                     IF r = Planner
                     THEN [RunInit EXCEPT !.args = [start_v |-> -1, end_v |-> e,
                                                    duration_ms |-> d, offset_ms |-> 0],
                                          !.by = 1]
                     ELSE RunInit]
         /\ log = <<[kind |-> "ramp", v |-> e, ret |-> TRUE, overlap |-> FALSE]>>
    /\ requested = {}
    /\ confirmed = {}
    /\ FrontInit(<<>>, <<>>)

NextPlan == \E r \in Runners : RampResolve(r)

SpecPlan == InitPlan /\ [][NextPlan]_vars

\* the runner has resolved its start: run[r].start_v is the start of its plan
Resolved(r) == run[r].phase # ""
\* the sequence before downsampling: max_samples = None
FullSeq(r) == EaseSampleSequence(run[r].start_v, run[r].args.end_v, 0)
\* the sequence _ease_sample_sequence returns for the runner's arguments
PlanSeq(r) ==
    EaseSampleSequence(run[r].start_v, run[r].args.end_v,
                       MaxIntervals(run[r].args.duration_ms) + 1)
\* intervals = max(1, len(seq) - 1), line 460
Intervals(r) == Max(1, Len(run[r].seq) - 1)

(* ------------------------------------------------------------------ *)
(* Properties                                                          *)
(* ------------------------------------------------------------------ *)
\* C1: single-writer: in no state are two device-tool child processes
\* alive at the same time.
C1_SingleWriter ==
    Cardinality({c \in ProcIds : procs[c].st = "running"}) <= 1

\* C2: preemption: for submits A then B, once submit(B) has returned no
\* step of A (its instant invocation, or a step of the ramp it started)
\* writes a new value to last_known_voltage.
C2_Preemption ==
    [][\A t \in Threads :
         (pc'[t] # pc[t] /\ last_known_voltage' # last_known_voltage)
           => ~\E b \in DOMAIN log : log[b].ret /\ By(t) < b]_vars

\* C3: at most one ramp runner is executing (resolving, planning, invoking
\* or sleeping) in any state.
C3_OneRampRunner ==
    Cardinality({r \in Runners :
                   pc[r] \notin {"unborn", "created", "fin_reap", "fin_clear", "dead"}}) <= 1

\* C4 as stated: every submit, whatever its tokens, has performed the
\* preemption barrier by the time it returns.
C4_BarrierAlways ==
    \A t \in Submitters : pc[t] = "return" => sub[t].entered

\* C4, amended: a submit performs the barrier exactly when its token count
\* and prefix are valid; the integer conversions come after the barrier, so
\* a submit rejected by them has signalled cancel to the ramp it found alive.
C4_BarrierAfterShapeAndPrefix ==
    \A t \in Submitters :
      pc[t] = "return" =>
        /\ sub[t].entered <=> (ShapeOk(sub[t].tokens) /\ PrefixOk(sub[t].tokens))
        /\ (sub[t].msg = "invalid" /\ call[t].rc = RcBadValue) => sub[t].entered
        /\ sub[t].found # 0 => sub[t].signalled

\* a submit rejected with 254 returns after cancelling the ramp it found
C4_Witness ==
    \E t \in Submitters :
      /\ pc[t] = "return"
      /\ sub[t].msg = "invalid"
      /\ call[t].rc = RcBadValue
      /\ sub[t].found # 0
      /\ sub[t].signalled

\* C5: a ramp submit followed by an instant submit B and nothing else: once
\* B has returned no device-tool child is launched and last_known_voltage
\* stays at B's voltage.
C5_RampThenInstant ==
    [][(/\ Len(log) = 2
        /\ log[1].kind = "ramp"
        /\ log[2].kind = "instant"
        /\ ~log[2].overlap
        /\ log[2].ret)
         => /\ \A c \in ProcIds : procs'[c].st = "running" => procs[c].st = "running"
            /\ last_known_voltage' = <<log[2].v>>]_vars

C7_InstantSubmit ==
    \A t \in Submitters :
      /\ pc[t] \in {"inv_popen", "inv_publish", "inv_wait", "inv_clear"} => sub[t].wrote
      /\ (pc[t] = "return" /\ log[sub[t].seqno].kind = "instant") =>
           /\ sub[t].wrote
           /\ (call[t].rc = 0 /\ sub[t].clean /\ ~log[sub[t].seqno].overlap)
                => last_known_voltage = <<log[sub[t].seqno].v>>

\* C8: a valid ramp submit returns rc 0 with "ramp started", and has started
\* its ramp thread with start = -1 and offset 0.
C8_RampSubmit ==
    \A t \in Submitters :
      (pc[t] = "return" /\ log[sub[t].seqno].kind = "ramp") =>
        /\ ~sub[t].raised
        /\ call[t].rc = 0
        /\ sub[t].msg = "ramp started"
        /\ sub[t].newr # 0
        /\ pc[sub[t].newr] # "created"
        /\ run[sub[t].newr].args.start_v = -1
        /\ run[sub[t].newr].args.offset_ms = 0

\* C9: validation codes and their precedence: a bad token count returns 252;
\* otherwise a bad prefix returns 253; otherwise a non-integer voltage or
\* duration returns 254.
C9_ValidationPrecedence ==
    \A t \in Submitters :
      pc[t] = "return" =>
        LET toks == sub[t].tokens IN
          /\ Len(toks) \notin {3, 4} => call[t].rc = 252
          /\ (Len(toks) \in {3, 4} /\ ~PrefixOk(toks)) => call[t].rc = 253
          /\ (Len(toks) \in {3, 4} /\ PrefixOk(toks) /\ ~ValuesOk(toks))
               => call[t].rc = 254

\* "com4 1 x 200 1" has all three defects and returns 252
C9_Witness ==
    \E t \in Submitters :
      pc[t] = "return" /\ sub[t].tokens = cLong /\ call[t].rc = 252

\* C10 as stated: a ramp command with a negative duration is rejected and
\* starts no ramp thread.
C10_NegativeRejected ==
    \A t \in Submitters :
      (/\ pc[t] = "return"
       /\ Len(sub[t].tokens) = 4
       /\ PrefixOk(sub[t].tokens)
       /\ IsInt(sub[t].tokens[3]) /\ IsInt(sub[t].tokens[4])
       /\ IntVal(sub[t].tokens[4]) < 0)
        => sub[t].msg = "invalid" /\ sub[t].newr = 0

\* C10, amended: a ramp command with a negative duration passes validation
\* and gets a ramp thread, and that thread plans as for a duration of 0: the
\* plan of duration 0 and no delay between steps.
C10_NegativeClampedToZero ==
    /\ \A t \in Submitters :
         (/\ pc[t] = "return"
          /\ Len(sub[t].tokens) = 4
          /\ PrefixOk(sub[t].tokens)
          /\ IsInt(sub[t].tokens[3]) /\ IsInt(sub[t].tokens[4])
          /\ IntVal(sub[t].tokens[4]) < 0)
           => sub[t].msg # "invalid" /\ sub[t].newr # 0
    /\ \A r \in Runners :
         (run[r].args.duration_ms < 0 /\ run[r].phase \in {"base", "step", "final"})
           => /\ run[r].num = 0
              /\ run[r].seq = Plan(run[r].start_v, run[r].args.end_v, 0).seq

\* the thread of a ramp with a negative duration waits for the child of a
\* step of its plan
C10_Witness ==
    \E r \in Runners :
      /\ run[r].args.duration_ms < 0
      /\ run[r].phase = "step"
      /\ pc[r] = "inv_wait"
      /\ procs[call[r].proc].st = "running"

\* C11: a submit rejected by validation (token count, prefix, or a voltage or
\* duration that is no integer) launches no device-tool child and creates no
\* ramp thread: it never leaves the checks and the barrier.
C11_RejectedLaunchesNothing ==
    \A t \in Submitters :
      LET toks == sub[t].tokens
          rejected == \/ Len(toks) \notin {3, 4}
                      \/ ~PrefixOk(toks)
                      \/ ~IsInt(toks[3])
                      \/ (Len(toks) = 4 /\ ~IsInt(toks[4]))
      IN  (pc[t] # "idle" /\ rejected) =>
            /\ pc[t] \in {"bar_enter", "bar_signal", "bar_loop", "bar_clear",
                          "kill_read", "kill_term", "kill_clear",
                          "post_barrier", "return"}
            /\ call[t].proc = 0
            /\ sub[t].newr = 0
            /\ ~sub[t].wrote

\* "com3 1 2 x" returns 254 after a barrier that found a ramp thread alive
C11_Witness ==
    \E t \in Submitters :
      /\ pc[t] = "return"
      /\ sub[t].tokens = cDur
      /\ call[t].rc = RcBadValue
      /\ sub[t].found # 0
      /\ sub[t].newr = 0

\* C12: idempotent validation: the return code of an invalid command line
\* depends on its tokens only, whatever the state at the time of the submit
\* (idle, a child in flight, a ramp running, last_known_voltage set or not):
\* each invalid line has one code, and two submits of the same invalid line
\* that return in the same state return the same code.
C12_IdempotentValidation ==
    /\ \A t \in Submitters :
         pc[t] = "return" =>
           /\ sub[t].tokens \in {cShort, cLong} => call[t].rc = 252
           /\ sub[t].tokens \in {cPrefix, cAddr} => call[t].rc = 253
           /\ sub[t].tokens \in {cVolt, cDur} => call[t].rc = 254
    /\ \A t, u \in Submitters :
         (/\ pc[t] = "return" /\ pc[u] = "return"
          /\ sub[t].tokens = sub[u].tokens
          /\ sub[t].tokens \in InvalidCommands)
           => call[t].rc = call[u].rc /\ sub[t].msg = sub[u].msg

\* an invalid line returns its code while a ramp thread runs, a child is
\* alive and last_known_voltage is set
C12_Witness ==
    \E t \in Submitters :
      /\ pc[t] = "return"
      /\ sub[t].tokens = cShort
      /\ call[t].rc = 252
      /\ last_known_voltage # <<>>
      /\ \E r \in Runners : IsAlive(r)
      /\ \E c \in ProcIds : procs[c].st = "running"

\* C20: return codes of _start_proc_and_wait: 252 without a child when the
\* tool is missing, 254 when the launch fails, 253 on timeout with the child
\* killed, otherwise the exit code of the child, handed back unchanged.
C20_InvokeReturnCodes ==
    [][\A t \in Threads :
         /\ (pc[t] = "inv_begin" /\ pc'[t] \notin {"inv_begin", "inv_popen"})
              => call'[t].rc = 252 /\ procs' = procs
         /\ (pc[t] = "inv_popen" /\ pc'[t] \notin {"inv_popen", "inv_publish"})
              => call'[t].rc = 254 /\ procs' = procs
         /\ (pc[t] = "inv_wait" /\ pc'[t] # "inv_wait")
              => IF procs[call[t].proc].st = "running"
                 THEN call'[t].rc = 253 /\ procs'[call[t].proc].st = "killed"
                 ELSE call'[t].rc = procs[call[t].proc].rc
         /\ (pc[t] = "inv_clear" /\ pc'[t] # "inv_clear")
              => call'[t].rc = call[t].rc /\ pc'[t] = call[t].iret]_vars

\* a submit returns 253 and its child, which timed out, is dead
C20_Witness ==
    \E t \in Submitters :
      /\ pc[t] = "inv_clear"
      /\ call[t].rc = 253
      /\ procs[call[t].proc].st = "killed"

\* C13: queue at-least-once: a row is stamped sent only if a submit of its
\* command (by the POST handler or by the flusher) returned rc 0; and
\* whenever such a submit returns rc 0 the row is eventually stamped sent.
C13_AtLeastOnce ==
    /\ [](\A k \in DOMAIN db.rows : db.rows[k].sent => db.rows[k].id \in trail.ok)
    /\ \A id \in RowIds : (id \in trail.ok) ~> IsSent(id)

\* the flusher, in a later tick, has stamped a row that a POST handler
\* enqueued and failed to submit
C13_Witness ==
    /\ flusher.pc = "loop"
    /\ flusher.i > 1
    /\ \E h \in HttpIds :
         /\ http[h].status = 500
         /\ http[h].row_id = flusher.rows[flusher.i - 1].id
         /\ IsSent(http[h].row_id)

\* C14: flusher liveness: when the tool succeeds and no live traffic arrives,
\* every unsent valid row is eventually submitted by the flusher and stamped
\* sent, whatever other rows are in the queue.
C14_FlusherDrains ==
    <>[](\A k \in DOMAIN db.rows : ValidText(db.rows[k].cmd) => db.rows[k].sent)

\* C15: get_unsent returns unsent rows only, in strictly ascending id order,
\* lowest ids first and all of them up to the limit; within one tick the
\* flusher submits the rows in that order, and a row is submitted only after
\* the submit of the row before it has returned.
C15_FetchOrder ==
    /\ [][(flusher.pc = "sleep" /\ flusher'.pc = "loop") =>
            LET rows == flusher'.rows IN
              /\ \A k \in 1..Len(rows) :
                   \E j \in DOMAIN db.rows :
                     /\ db.rows[j].id = rows[k].id
                     /\ db.rows[j].cmd = rows[k].cmd
                     /\ ~db.rows[j].sent
              /\ \A k \in 1..(Len(rows) - 1) : rows[k].id < rows[k + 1].id
              /\ \A j \in DOMAIN db.rows :
                   (~db.rows[j].sent /\ \A k \in 1..Len(rows) : rows[k].id # db.rows[j].id)
                     => /\ Len(rows) = FLUSH_LIMIT
                        /\ db.rows[j].id > rows[Len(rows)].id]_vars
    /\ [](/\ Len(flusher.done) <= Len(flusher.rows)
          /\ \A k \in 1..Len(flusher.done) : flusher.done[k] = flusher.rows[k].id
          /\ flusher.pc \in {"wait", "mark"} => Len(flusher.done) = flusher.i
          /\ (flusher.pc \in {"loop", "sleep"} /\ flusher.i > 0)
               => Len(flusher.done) = flusher.i - 1)

\* in a later tick the flusher has fetched the two rows still unsent, leaving
\* out the stamped row before them, and has submitted both
C15_Witness ==
    /\ flusher.pc = "wait"
    /\ Len(flusher.rows) = 2
    /\ Len(flusher.done) = 2
    /\ \E j \in DOMAIN db.rows : db.rows[j].sent /\ db.rows[j].id < flusher.rows[1].id

\* C16: queue lifecycle: ids are unique and strictly increasing in enqueue
\* order, also under concurrent enqueue; no row is removed; the cmd of a row
\* never changes; a row once stamped sent is never unstamped.
C16_Lifecycle ==
    /\ [](/\ \A j, k \in DOMAIN db.rows : j # k => db.rows[j].id # db.rows[k].id
          /\ \A j, k \in DOMAIN trail.enq : j < k => trail.enq[j] < trail.enq[k])
    /\ [][/\ Len(db'.rows) >= Len(db.rows)
          /\ \A k \in DOMAIN db.rows :
               /\ db'.rows[k].id = db.rows[k].id
               /\ db'.rows[k].cmd = db.rows[k].cmd
               /\ db.rows[k].sent => db'.rows[k].sent
          /\ \A k \in DOMAIN db'.rows \ DOMAIN db.rows :
               \A j \in DOMAIN db.rows : db'.rows[k].id > db.rows[j].id]_vars

\* two handlers have enqueued before either has submitted, and a row of the
\* queue is stamped
C16_Witness ==
    /\ http[1].pc = "call"
    /\ http[2].pc = "call"
    /\ Len(trail.enq) = 2
    /\ \E k \in DOMAIN db.rows : db.rows[k].sent

\* C17: POST /send: the command is in the queue before it is submitted; the
\* handler stamps the row and replies 200 exactly when the submit returns
\* rc 0, otherwise it replies 500 and does not stamp the row.
C17_PostSend ==
    \A h \in HttpIds :
      /\ http[h].pc \in {"call", "wait", "got", "reply"} =>
           \E k \in DOMAIN db.rows :
             db.rows[k].id = http[h].row_id /\ db.rows[k].cmd = http[h].cmd
      /\ (http[h].pc = "idle" /\ http[h].row_id # 0) =>
           /\ http[h].status \in {200, 500}
           /\ http[h].status = 200 <=> (http[h].rc = 0 /\ ~http[h].raised)
           /\ http[h].status = 200 => http[h].marked /\ IsSent(http[h].row_id)
           /\ http[h].status = 500 => ~http[h].marked

\* a handler has replied 500 to a command that returned 1, and its row is
\* in the queue, unsent
C17_Witness ==
    \E h \in HttpIds :
      /\ http[h].pc = "idle"
      /\ http[h].status = 500
      /\ http[h].rc = 1
      /\ http[h].row_id # 0
      /\ ~IsSent(http[h].row_id)

\* C18: on one TCP connection every non-empty line received causes exactly
\* one submit and one reply, the replies in the order of the lines, OK:<rc>
\* exactly when rc is 0 and ERR:<rc>:<message> otherwise.
C18_OneReplyPerLine ==
    /\ Len(conn.out) = Len(conn.lines) - (IF conn.pc = "wait" THEN 1 ELSE 0)
    /\ \A k \in 1..Len(conn.out) :
         /\ conn.out[k].tag = "OK" <=> conn.out[k].rc = 0
         /\ k <= Len(conn.lines) => conn.out[k].rc \in SubmitRcs(conn.lines[k], InvokeRcs)
    /\ conn.pc \in {"recv", "closed"} => conn.lines = LinesOf(conn.got)

\* C19: TCP framing: the next line ends at whichever of CR and LF comes first
\* in the buffer, so that two commands separated by LF are dispatched
\* separately even when a CR comes later in the buffer.
C19_FirstTerminator ==
    /\ conn.pc = "line" => ~Has(conn.line, CR) /\ ~Has(conn.line, LF)
    /\ conn.pc = "wait" =>
         \E k \in 1..Len(LinesOf(conn.got)) : LinesOf(conn.got)[k] = conn.tokens



\* C21: plan endpoints: the planned sequence has first element start and last
\* element end, before and after the downsampling to maxIntervals + 1 samples;
\* the sequence the runner steps through is that downsampled sequence.
C21_PlanEndpoints ==
    \A r \in Runners : Resolved(r) =>
        /\ FullSeq(r)[1] = run[r].start_v
        /\ FullSeq(r)[Len(FullSeq(r))] = run[r].args.end_v
        /\ PlanSeq(r)[1] = run[r].start_v
        /\ PlanSeq(r)[Len(PlanSeq(r))] = run[r].args.end_v
        /\ run[r].phase # "noop" => run[r].seq = PlanSeq(r)

\* a plan that was downsampled
C21_Witness ==
    /\ Resolved(Planner)
    /\ run[Planner].phase = "base"
    /\ Len(run[Planner].seq) < Len(FullSeq(Planner))
    /\ run[Planner].seq[1] = run[Planner].start_v

\* C22: floor respected: a plan with a positive duration and start # end has
\* a per-step interval (num / den milliseconds) of at least the floor.
C22_FloorRespected ==
    \A r \in Runners :
        Resolved(r) /\ run[r].phase # "noop" /\ run[r].args.duration_ms > 0 =>
            run[r].num >= RAMP_STEP_DELAY_FLOOR * run[r].den

\* a plan whose duration is shorter than one floor interval
C22_Witness ==
    /\ run[Planner].phase = "base"
    /\ run[Planner].args.duration_ms \in 1..(RAMP_STEP_DELAY_FLOOR - 1)
    /\ run[Planner].num = RAMP_STEP_DELAY_FLOOR
    /\ run[Planner].den = 1

\* C23 as stated: for a duration d > 0 the planned total, interval * intervals,
\* is at least d and less than 2 * d.
C23_DurationWithinDouble ==
    \A r \in Runners :
        Resolved(r) /\ run[r].phase # "noop" /\ run[r].args.duration_ms > 0 =>
            /\ run[r].args.duration_ms * run[r].den <= run[r].num * Intervals(r)
            /\ run[r].num * Intervals(r) < 2 * run[r].args.duration_ms * run[r].den

\* C23: duration target: for a duration d > 0 the planned total,
\* interval * intervals, is d when d is at least the floor and is the floor
\* when d is shorter than the floor; it is therefore never less than d, and
\* it is less than 2 * d exactly when d is more than half the floor.
C23_DurationTarget ==
    \A r \in Runners :
        Resolved(r) /\ run[r].phase # "noop" /\ run[r].args.duration_ms > 0 =>
            LET d == run[r].args.duration_ms
                total == run[r].num * Intervals(r)
            IN  /\ total = (IF d >= RAMP_STEP_DELAY_FLOOR THEN d
                            ELSE RAMP_STEP_DELAY_FLOOR) * run[r].den
                /\ total >= d * run[r].den
                /\ total < 2 * d * run[r].den <=> 2 * d > RAMP_STEP_DELAY_FLOOR

\* a plan of at most half the floor: its total is the floor, at least 2 * d
C23_Witness ==
    /\ run[Planner].phase = "base"
    /\ run[Planner].args.duration_ms > 0
    /\ 2 * run[Planner].args.duration_ms <= RAMP_STEP_DELAY_FLOOR
    /\ run[Planner].num * Intervals(Planner) = RAMP_STEP_DELAY_FLOOR * run[Planner].den

\* s never decreases (dir = 1) or never increases (dir = -1), and no two
\* consecutive values are equal
StrictlyToward(s, dir) ==
    \A i \in 1..(Len(s) - 1) : (s[i + 1] - s[i]) * dir > 0

\* C24: monotone samples: the planned sequence rises when end > start and
\* falls when end < start, before and after downsampling, and holds no two
\* equal consecutive values.
C24_MonotoneSamples ==
    \A r \in Runners : Resolved(r) =>
        LET dir == IF run[r].args.end_v >= run[r].start_v THEN 1 ELSE -1
        IN  /\ StrictlyToward(FullSeq(r), dir)
            /\ StrictlyToward(PlanSeq(r), dir)
            /\ run[r].phase # "noop" => StrictlyToward(run[r].seq, dir)

\* a falling plan that was downsampled to three samples or more
C24_Witness ==
    /\ run[Planner].phase = "base"
    /\ run[Planner].args.end_v < run[Planner].start_v
    /\ Len(run[Planner].seq) >= 3
    /\ Len(run[Planner].seq) < Len(FullSeq(Planner))

\* C25: plan length: one element when start = end; otherwise at least 2 and
\* at most maxIntervals + 1 elements, maxIntervals being
\* max(1, floor(durationMs / 1000 / floor)): a 200 ms ramp has at most 2
\* intervals.
C25_PlanLength ==
    \A r \in Runners : Resolved(r) =>
        LET d == run[r].args.duration_ms
            maxIntervals == Max(1, Max(0, d) \div RAMP_STEP_DELAY_FLOOR)
        IN  /\ run[r].args.end_v = run[r].start_v => Len(PlanSeq(r)) = 1
            /\ run[r].args.end_v # run[r].start_v =>
                  /\ run[r].seq = PlanSeq(r)
                  /\ Len(run[r].seq) >= 2
                  /\ Len(run[r].seq) <= maxIntervals + 1
                  /\ d = 200 => Intervals(r) <= 2

\* a 200 ms ramp over more than two volts, planned with two intervals
C25_Witness ==
    /\ run[Planner].phase = "base"
    /\ run[Planner].args.duration_ms = 200
    /\ Abs(run[Planner].args.end_v - run[Planner].start_v) > 2
    /\ Intervals(Planner) = 2



\* C26: ramp cancellation: while ramp_cancel_event stays set a ramp thread
\* starts at most one more device-tool invocation; with the event set it
\* neither begins a further step nor sleeps a further slice; and it then
\* terminates (or the event is cleared).  Under SpecCancel the ramp thread
\* is FirstRunner.
C26_RampCancellation ==
    /\ [](\A r \in Runners : run[r].since <= 1)
    /\ [][\A r \in Runners : ramp_cancel_event =>
            /\ pc[r] = "step_check" => pc'[r] # "inv_begin"
            /\ pc[r] = "sleep" /\ run[r].slept < SleepSlices(run[r].num, run[r].den)
                  => run'[r].slept = run[r].slept]_vars
    /\ (IsAlive(FirstRunner) /\ ramp_cancel_event)
         ~> (~IsAlive(FirstRunner) \/ ~ramp_cancel_event)

\* a ramp thread that started an invocation after the cancel was signalled
\* has stopped at the head of its next step
C26_Witness ==
    \E r \in Runners :
        /\ run[r].since = 1
        /\ run[r].hit
        /\ pc[r] = "fin_reap"
        /\ run[r].idx <= Len(run[r].seq)
        /\ ramp_cancel_event


\* the samples a ramp thread has to set: end_v alone for a no-op ramp
PlanOf(r) == IF run[r].phase = "noop" THEN <<run[r].args.end_v>> ELSE run[r].seq

\* C27: a ramp that is never cancelled issues exactly one invocation per plan
\* sample, in plan order (seq[0] as baseline, then seq[1], ...), whatever the
\* exit codes of its invocations, and then terminates; its last invocation is
\* for the end voltage.  Under SpecRamp the ramp thread is FirstRunner.
C27_UncancelledRamp ==
    /\ [](\A r \in Runners : Resolved(r) =>
            /\ Len(run[r].issued) <= Len(PlanOf(r))
            /\ \A i \in 1..Len(run[r].issued) : run[r].issued[i] = PlanOf(r)[i]
            /\ pc[r] \in {"fin_reap", "fin_clear"} /\ ~run[r].hit =>
                  /\ run[r].issued = PlanOf(r)
                  /\ run[r].issued[Len(run[r].issued)] = run[r].args.end_v)
    /\ [][\A r \in Runners : pc[r] = "commit" /\ run[r].phase = "base"
                                /\ pc'[r] # "commit" => pc'[r] = "step_check"]_vars
    /\ IsAlive(FirstRunner) ~> (pc[FirstRunner] = "dead")

\* a ramp from 3 to 2 is over: both invocations were made although the tool
\* was missing each time, so that last_known_voltage is still 3
C27_Witness ==
    \E r \in Runners :
        /\ pc[r] = "fin_reap"
        /\ ~run[r].hit
        /\ run[r].issued = <<3, 2>>
        /\ last_known_voltage = <<3>>


\* C28: in the barrier, a cancelled ramp thread that finishes during the wait
\* ends the wait at that point: the whole budget of WaitSlices slices is
\* spent only when the ramp thread the barrier found has not finished, that
\* is, has not left the body of _ramp_runner for its clean-up.
C28_BarrierStopsEarly ==
    \A t \in Submitters :
        pc[t] = "bar_loop" /\ sub[t].found # 0 /\ sub[t].waited = WaitSlices
            => pc[sub[t].found] \notin {"fin_reap", "fin_clear", "dead"}


\* C29: active_proc lifecycle: from the publication of an invocation's child
\* until the invocation returns, active_proc refers to that child unless
\* kill_active_proc has terminated it (every live published child can be
\* reached by kill_active_proc); and active_proc never refers to the child
\* of an invocation that has returned.
C29_HandleLifecycle ==
    /\ \A t \in Threads :
          pc[t] = "inv_wait" /\ procs[call[t].proc].st = "running"
              => active_proc = call[t].proc
    /\ active_proc # 0 =>
          \E t \in Threads : /\ pc[t] \in {"inv_wait", "inv_clear"}
                             /\ call[t].proc = active_proc


\* C30: shutdown requested while a ramp is running: when shutdown returns,
\* ramp_cancel_event is set (unless that ramp thread has ended) and
\* active_proc is None; and the ramp thread starts at most one further
\* invocation after shutdown has signalled, also when submits arrive
\* concurrently with the shutdown.
C30_ShutdownCancelsRamp ==
    /\ [][pc[Main] # "shut_done" /\ pc'[Main] = "shut_done" =>
            /\ active_proc' = 0
            /\ \A r \in Runners :
                  run'[r].shut /\ pc'[r] # "dead" => ramp_cancel_event']_vars
    /\ [](\A r \in Runners : run[r].after <= 1)


\* C31: start resolution: the first voltage a ramp thread sends to the
\* device (its baseline seq[0]) is the value last_known_voltage has when the
\* thread starts to run, that is, at its first statement (lines 420-428), or
\* 0 when last_known_voltage is None at that moment; it is that value also
\* when last_known_voltage has changed before the baseline is sent.
C31_StartResolution ==
    /\ [][\A r \in Runners : pc[r] = "resolve" /\ pc'[r] # "resolve" =>
            /\ run'[r].start_v = (IF last_known_voltage = <<>> THEN 0
                                  ELSE last_known_voltage[1])
            /\ run'[r].phase = "base" => run'[r].seq[1] = run'[r].start_v
            /\ call'[r].arg = run'[r].start_v]_vars
    /\ [](\A r \in Runners :
            run[r].issued # <<>> => run[r].issued[1] = run[r].start_v)

\* a ramp thread started while last_known_voltage was None has sent its
\* baseline 0 after an instant command has set last_known_voltage to 3
C31_Witness ==
    \E r \in Runners :
        /\ run[r].issued = <<0>>
        /\ run[r].start_v = 0
        /\ last_known_voltage = <<3>>
        /\ pc[r] = "inv_wait"


\* C32: whenever a ramp thread is executing the body of _ramp_runner,
\* ramp_thread refers to it, so that the barrier of the next run_setcom call
\* finds it and signals its cancel; and the clean-up of a ramp thread (lines
\* 520-523) never erases the reference to a ramp thread started after it.
C32_RampThreadRefersToRunner ==
    /\ [](\A r \in Runners :
            IsAlive(r) /\ pc[r] \notin {"fin_reap", "fin_clear"} => ramp_thread = r)
    /\ [][\A r \in Runners :
            pc[r] = "fin_reap" /\ pc'[r] = "fin_clear" => ramp_thread \in {0, r}]_vars

\* C33: every run_setcom call eventually returns, provided each invocation
\* of the device tool ends or times out: the barrier, which holds ramp_lock
\* while it waits for the ramp thread, and the ramp thread, which needs
\* ramp_lock for its clean-up, never block each other for ever, and every
\* ramp thread terminates.  Whenever a call is under way or a ramp thread is
\* alive, a state follows in which every call has ended (with its return
\* value, or with the exception of line 616) and every ramp thread has
\* terminated.
C33_SubmitReturns ==
    ((\E t \in Submitters : pc[t] # "idle") \/ (\E r \in Runners : IsAlive(r)))
        ~> ((\A t \in Submitters : pc[t] = "idle") /\ (\A r \in Runners : ~IsAlive(r)))

\* the barrier has used up its budget while the ramp thread it cancelled
\* waits for ramp_lock in its clean-up
C33_Witness ==
    /\ pc[1] = "bar_clear"
    /\ ramp_lock
    /\ sub[1].found = FirstRunner
    /\ pc[FirstRunner] = "fin_reap"

====
